---- MODULE Spec2Model ----
(***************************************************************************)
(* AutoPas spatial pair-iteration engine: linked-cells base steps (c08,    *)
(* c18), the cell functor, coloured and sliced traversals and the          *)
(* traversal selector.                                                     *)
(***************************************************************************)
EXTENDS Integers, Sequences, FiniteSets, Bags, TLC

VARIABLES pc, geo, traversalType, useNewton3, dataLayout, cells, pos, calls, queue,
          numThreads, colour, pending, threads, locks, force, aosCalls,
          functor, behavior, nDevices, traversal, errors, log, applicable,
          cutoff,
          calculateGlobals, upotSum, virialSum, postProcessed, aosThreadData,
          owned, halo, buildPos, aosNeighborLists, soaNeighborLists, soaListIsValid,
          neighborListIsValid, verletBuiltNewton3, rebuildFrequency, stepsSinceRebuild,
          changedSinceBuild, quiet, history, returned, updated, outcome

vars == <<pc, geo, traversalType, useNewton3, dataLayout, cells, pos, calls, queue,
          numThreads, colour, pending, threads, locks, force, aosCalls,
          functor, behavior, nDevices, traversal, errors, log, applicable,
          cutoff,
          calculateGlobals, upotSum, virialSum, postProcessed, aosThreadData,
          owned, halo, buildPos, aosNeighborLists, soaNeighborLists, soaListIsValid,
          neighborListIsValid, verletBuiltNewton3, rebuildFrequency, stepsSinceRebuild,
          changedSinceBuild, quiet, history, returned, updated, outcome>>

\* the global values of the LJ functor
ljVars == <<calculateGlobals, upotSum, virialSum, postProcessed, aosThreadData>>

\* the Verlet-list container and the engine's rebuild bookkeeping
verletVars == <<owned, halo, buildPos, aosNeighborLists, soaNeighborLists, soaListIsValid,
                neighborListIsValid, verletBuiltNewton3, rebuildFrequency, stepsSinceRebuild,
                changedSinceBuild, quiet, history, returned, updated, outcome>>

\* the state of the functor and of the containers the engine drives
engineVars == <<ljVars, verletVars>>

\* the state of the parallel region of a traversal
parVars == <<numThreads, colour, pending, threads, locks, force, aosCalls>>

\* the state of the traversal selector and of the engine that runs its result
selVars == <<functor, behavior, nDevices, traversal, errors, log, applicable,
             cutoff>>

(***************************************************************************)
(* Bounds of the model.                                                    *)
(***************************************************************************)
GX == 3
GY == 3
GZ == 3
NumParticles == 2
Reach == 2

(***************************************************************************)
(* Small helpers.                                                          *)
(***************************************************************************)
Max0(a) == IF a > 0 THEN a ELSE 0
Abs(a) == IF a < 0 THEN 0 - a ELSE a
MaxOf(a, b) == IF a > b THEN a ELSE b
MinOf(a, b) == IF a < b THEN a ELSE b
CeilDiv(a, b) == (a + b - 1) \div b

\* a table of tables with all its entries evaluated, by the comparison
Evaluated(table) == IF table = table THEN table ELSE <<>>

RECURSIVE FlatMap(_, _, _)
\* concatenation of F[k] for k = from .. to-1, in increasing order of k
FlatMap(F, from, to) ==
  IF from >= to THEN <<>>
  ELSE IF to = from + 1 THEN F[from]
  ELSE LET mid == (from + to) \div 2
       IN  FlatMap(F, from, mid) \o FlatMap(F, mid, to)

(***************************************************************************)
(* Geometry of the cell grid.                                              *)
(***************************************************************************)
\* utils::ThreeDimensionalMapping::threeToOneD: idx = x + nx * (y + ny * z)
threeToOneD(x, y, z, d) == x + d[1] * (y + d[2] * z)

oneToThreeD(i, d) == <<i % d[1], (i \div d[1]) % d[2], i \div (d[1] * d[2])>>

NumCells(d) == d[1] * d[2] * d[3]

\* CellPairTraversal: number of cells the interaction length spans per axis
computeOverlap(interactionLength, cellLength) ==
  [k \in 1..3 |-> CeilDiv(interactionLength, cellLength[k])]

BaseGeo(d, cellLength, interactionLength) ==
  [dims |-> d, cellLength |-> cellLength, interactionLength |-> interactionLength,
   overlap |-> computeOverlap(interactionLength, cellLength)]

(***************************************************************************)
(* C08CellHandler::computeOffsets.                                         *)
(***************************************************************************)
\* the k-th (0-based) entry pushed by the first loop nest (x outer, z inner)
C08cellOffsets(g, k) ==
  LET nz == g.overlap[3] + 1
      ny == g.overlap[2] + 1
  IN  threeToOneD(k \div (ny * nz), (k \div nz) % ny, k % nz, g.dims)

DistSquare(v, cellLength) ==
  (v[1] * cellLength[1]) * (v[1] * cellLength[1]) +
  (v[2] * cellLength[2]) * (v[2] * cellLength[2]) +
  (v[3] * cellLength[3]) * (v[3] * cellLength[3])

\* C08pairsAt without the "back right" pair of the block
C08pairsAt_NoBackRight(g, x, y, z) ==
  LET ov == g.overlap
      ov1 == ov[1] + 1
      ov1_squared == ov1 * ov1
      ilSq == g.interactionLength * g.interactionLength
      offset == threeToOneD(x, y, 0, g.dims)
      origin ==
        IF DistSquare(<<Max0(x - 1), Max0(y - 1), Max0(z - 1)>>, g.cellLength) <= ilSq
        THEN << <<threeToOneD(0, 0, z, g.dims), offset>> >> ELSE <<>>
      backLeft ==
        IF y # ov[2] /\ z # 0 /\
           DistSquare(<<Max0(x - 1), Max0(ov[2] - y - 1), Max0(z - 1)>>, g.cellLength) <= ilSq
        THEN << <<threeToOneD(0, ov[2], z, g.dims), offset>> >> ELSE <<>>
      frontRight ==
        IF x # ov[1] /\ (y # 0 \/ z # 0) /\
           DistSquare(<<Max0(ov[1] - x - 1), Max0(y - 1), Max0(z - 1)>>, g.cellLength) <= ilSq
        THEN << <<threeToOneD(ov[1], 0, z, g.dims), offset>> >> ELSE <<>>
  IN  origin \o backLeft \o frontRight

\* the pairs pushed by one iteration (x, y, z) of the second loop nest
C08pairsAt(g, x, y, z) ==
  LET ov == g.overlap
      ov1 == ov[1] + 1
      ov1_squared == ov1 * ov1
      ilSq == g.interactionLength * g.interactionLength
      offset == C08cellOffsets(g, ov1_squared * x + ov1 * y)
      origin ==
        IF DistSquare(<<Max0(x - 1), Max0(y - 1), Max0(z - 1)>>, g.cellLength) <= ilSq
        THEN << <<C08cellOffsets(g, z), offset>> >> ELSE <<>>
      backLeft ==
        IF y # ov[2] /\ z # 0 /\
           DistSquare(<<Max0(x - 1), Max0(ov[2] - y - 1), Max0(z - 1)>>, g.cellLength) <= ilSq
        THEN << <<C08cellOffsets(g, ov1_squared - ov1 + z), offset>> >> ELSE <<>>
      frontRight ==
        IF x # ov[1] /\ (y # 0 \/ z # 0) /\
           DistSquare(<<Max0(ov[1] - x - 1), Max0(y - 1), Max0(z - 1)>>, g.cellLength) <= ilSq
        THEN << <<C08cellOffsets(g, ov1_squared * ov[1] + z), offset>> >> ELSE <<>>
      backRight ==
        IF y # ov[2] /\ x # ov[1] /\ z # 0 /\
           DistSquare(<<Max0(ov[1] - x - 1), Max0(ov[2] - y - 1), Max0(z - 1)>>, g.cellLength) <= ilSq
        THEN << <<C08cellOffsets(g, ov1_squared * ov1 - ov1 + z), offset>> >> ELSE <<>>
  IN  origin \o backLeft \o frontRight \o backRight

\* C08computeOffsets without the last iteration of the second loop nest
C08computeOffsets_ShortLoop(g) ==
  LET nz == g.overlap[3] + 1
      ny == g.overlap[2] + 1
      nx == g.overlap[1] + 1
      F == [k \in 0..(nx * ny * nz - 1) |->
              C08pairsAt(g, k \div (ny * nz), (k \div nz) % ny, k % nz)]
  IN  FlatMap(F, 0, nx * ny * nz - 1)

\* _cellPairOffsets: sequence of <<offset1, offset2>>
C08computeOffsets(g) ==
  LET nz == g.overlap[3] + 1
      ny == g.overlap[2] + 1
      nx == g.overlap[1] + 1
      F == [k \in 0..(nx * ny * nz - 1) |->
              C08pairsAt(g, k \div (ny * nz), (k \div nz) % ny, k % nz)]
  IN  FlatMap(F, 0, nx * ny * nz)

\* C08CellHandler::processBaseCell: the cell operations of one base step,
\* <<cellIndex1, cellIndex2>>; equal indices stand for processCell
C08processBaseCell(g, baseIndex) ==
  LET offs == g.cellPairOffsets
  IN  [k \in 1..Len(offs) |-> <<baseIndex + offs[k][1], baseIndex + offs[k][2]>>]

(***************************************************************************)
(* C18Traversal::computeOffsets, getIndex, processBaseCell.                *)
(***************************************************************************)
\* C18offsetsFor without the test of the distance
C18offsetsFor_NoDistanceTest(g, yArray, xArray) ==
  LET ov == g.overlap
      wx == 2 * ov[1] + 1
      wy == 2 * ov[2] + 1
      F == [k \in 0..((ov[3] + 1) * wy * wx - 1) |->
              LET z == k \div (wy * wx)
                  y == ((k \div wx) % wy) - ov[2]
                  x == (k % wx) - ov[1]
                  offset == threeToOneD(x, y, z, g.dims)
              IN  IF offset < 0 THEN <<>>
                  ELSE IF Abs(yArray + y) <= ov[2] /\ Abs(xArray + x) <= ov[1]
                       THEN <<offset>> ELSE <<>>]
  IN  FlatMap(F, 0, (ov[3] + 1) * wy * wx)

\* the offsets pushed to _cellOffsets[yArray + ov][xArray + ov], in loop order
C18offsetsFor(g, yArray, xArray) ==
  LET ov == g.overlap
      wx == 2 * ov[1] + 1
      wy == 2 * ov[2] + 1
      ilSq == g.interactionLength * g.interactionLength
      F == [k \in 0..((ov[3] + 1) * wy * wx - 1) |->
              LET z == k \div (wy * wx)
                  y == ((k \div wx) % wy) - ov[2]
                  x == (k % wx) - ov[1]
                  offset == threeToOneD(x, y, z, g.dims)
              IN  IF offset < 0 THEN <<>>
                  ELSE IF Abs(yArray + y) <= ov[2] /\ Abs(xArray + x) <= ov[1] /\
                          DistSquare(<<Max0(Abs(x) - 1), Max0(Abs(y) - 1), Max0(Abs(z) - 1)>>,
                                     g.cellLength) <= ilSq
                       THEN <<offset>> ELSE <<>>]
  IN  FlatMap(F, 0, (ov[3] + 1) * wy * wx)

\* C18computeOffsets with the y special cases shifted by one
C18computeOffsets_Shifted(g, a, b) == C18offsetsFor(g, a - g.overlap[2] + 1, b - g.overlap[1])

\* _cellOffsets[a][b] with 0-based a, b
C18computeOffsets(g, a, b) == C18offsetsFor(g, a - g.overlap[2], b - g.overlap[1])

\* C18Traversal::getIndex (dim is 1-based here)
C18getIndex(g, p, dim) ==
  IF p < g.overlap[dim] THEN p
  ELSE IF p < g.dims[dim] - g.overlap[dim] THEN g.overlap[dim]
  ELSE p - g.dims[dim] + 2 * g.overlap[dim] + 1

\* C18Traversal::processBaseCell: <<baseIndex, otherIndex>> per offset
C18processBaseCell(g, x, y, z) ==
  LET baseIndex == threeToOneD(x, y, z, g.dims)
      offsets == g.cellOffsets[C18getIndex(g, y, 2)][C18getIndex(g, x, 1)]
  IN  [k \in 1..Len(offsets) |-> <<baseIndex, baseIndex + offsets[k]>>]

\* the traversal constructors: geometry plus the offset tables computed once
MakeGeo(d, cellLength, interactionLength) ==
  LET g == BaseGeo(d, cellLength, interactionLength)
  IN  [dims |-> g.dims, cellLength |-> g.cellLength,
       interactionLength |-> g.interactionLength, overlap |-> g.overlap,
       cellPairOffsets |-> C08computeOffsets(g),
       cellOffsets |-> [a \in 0..(2 * g.overlap[2]) |->
                          [b \in 0..(2 * g.overlap[1]) |-> C18computeOffsets(g, a, b)]]]

(***************************************************************************)
(* CellFunctor: the functor calls made for one cell and for a cell pair.   *)
(* A call is a record; cells are sequences of particle ids.                *)
(***************************************************************************)
AoSCall(p1, p2, n3) == [fn |-> "AoS", i |-> p1, j |-> p2, newton3 |-> n3]
SoACall1(c, n3) == [fn |-> "SoA1", soa1 |-> c, soa2 |-> <<>>, newton3 |-> n3]
SoACall2(c1, c2, n3) == [fn |-> "SoA2", soa1 |-> c1, soa2 |-> c2, newton3 |-> n3]

\* processCellAoSN3 with the inner loop starting at the outer particle
processCellAoSN3_FromOuter(cell) ==
  LET n == Len(cell)
      F == [a \in 1..n |-> [k \in 1..(n - a + 1) |-> AoSCall(cell[a], cell[a + k - 1], TRUE)]]
  IN  FlatMap(F, 1, n + 1)

processCellAoSN3(cell) ==
  LET n == Len(cell)
      F == [a \in 1..n |-> [k \in 1..(n - a) |-> AoSCall(cell[a], cell[a + k], TRUE)]]
  IN  FlatMap(F, 1, n + 1)

\* processCellAoSNoN3 without the step over the outer particle
processCellAoSNoN3_NoSkip(cell) ==
  LET n == Len(cell)
      F == [a \in 1..n |->
              [k \in 1..(a - 1) |-> AoSCall(cell[a], cell[k], FALSE)] \o
              [k \in 1..(n - a + 1) |-> AoSCall(cell[a], cell[a + k - 1], FALSE)]]
  IN  FlatMap(F, 1, n + 1)

processCellAoSNoN3(cell) ==
  LET n == Len(cell)
      F == [a \in 1..n |->
              [k \in 1..(a - 1) |-> AoSCall(cell[a], cell[k], FALSE)] \o
              [k \in 1..(n - a) |-> AoSCall(cell[a], cell[a + k], FALSE)]]
  IN  FlatMap(F, 1, n + 1)

\* processCellPairAoSN3 calling the functor without newton3
processCellPairAoSN3_NoReaction(cell1, cell2) ==
  LET F == [a \in 1..Len(cell1) |->
              [b \in 1..Len(cell2) |-> AoSCall(cell1[a], cell2[b], FALSE)]]
  IN  FlatMap(F, 1, Len(cell1) + 1)

processCellPairAoSN3(cell1, cell2) ==
  LET F == [a \in 1..Len(cell1) |->
              [b \in 1..Len(cell2) |-> AoSCall(cell1[a], cell2[b], TRUE)]]
  IN  FlatMap(F, 1, Len(cell1) + 1)

\* processCellPairAoSNoN3 without the second call of each pair
processCellPairAoSNoN3_OneWay(cell1, cell2) ==
  LET F == [a \in 1..Len(cell1) |->
              [b \in 1..Len(cell2) |-> AoSCall(cell1[a], cell2[b], FALSE)]]
  IN  FlatMap(F, 1, Len(cell1) + 1)

processCellPairAoSNoN3(cell1, cell2) ==
  LET G(a) == [b \in 1..Len(cell2) |->
                 <<AoSCall(cell1[a], cell2[b], FALSE), AoSCall(cell2[b], cell1[a], FALSE)>>]
      F == [a \in 1..Len(cell1) |-> FlatMap(G(a), 1, Len(cell2) + 1)]
  IN  FlatMap(F, 1, Len(cell1) + 1)

processCellPairSoAN3(cell1, cell2) == <<SoACall2(cell1, cell2, TRUE)>>

processCellPairSoANoN3(cell1, cell2) ==
  <<SoACall2(cell1, cell2, FALSE), SoACall2(cell2, cell1, FALSE)>>

processCellSoAN3(cell) == <<SoACall1(cell, TRUE)>>

processCellSoANoN3(cell) == <<SoACall1(cell, FALSE)>>

processCell(cell, useSoA, n3) ==
  IF useSoA
  THEN (IF n3 THEN processCellSoAN3(cell) ELSE processCellSoANoN3(cell))
  ELSE (IF n3 THEN processCellAoSN3(cell) ELSE processCellAoSNoN3(cell))

processCellPair(cell1, cell2, useSoA, n3) ==
  IF useSoA
  THEN (IF n3 THEN processCellPairSoAN3(cell1, cell2) ELSE processCellPairSoANoN3(cell1, cell2))
  ELSE (IF n3 THEN processCellPairAoSN3(cell1, cell2) ELSE processCellPairAoSNoN3(cell1, cell2))

\* the functor calls of a sequence of cell operations <<index1, index2>>
CellOpCalls(cs, op, useSoA, n3) ==
  IF op[1] = op[2] THEN processCell(cs[op[1]], useSoA, n3)
  ELSE processCellPair(cs[op[1]], cs[op[2]], useSoA, n3)

BaseStepCalls(cs, ops, useSoA, n3) ==
  LET F == [k \in 1..Len(ops) |-> CellOpCalls(cs, ops[k], useSoA, n3)]
  IN  FlatMap(F, 1, Len(ops) + 1)

(***************************************************************************)
(* Functor contract: the ordered particle pairs a call is applied to.      *)
(***************************************************************************)
HandedPairs(c) ==
  IF c.fn = "AoS" THEN << <<c.i, c.j>> >>
  ELSE IF c.fn = "SoA1"
  THEN (IF c.newton3
        THEN LET n == Len(c.soa1)
                 F == [a \in 1..n |-> [k \in 1..(n - a) |-> <<c.soa1[a], c.soa1[a + k]>>]]
             IN  FlatMap(F, 1, n + 1)
        ELSE LET n == Len(c.soa1)
                 F == [a \in 1..n |->
                         [k \in 1..(a - 1) |-> <<c.soa1[a], c.soa1[k]>>] \o
                         [k \in 1..(n - a) |-> <<c.soa1[a], c.soa1[a + k]>>]]
             IN  FlatMap(F, 1, n + 1))
  ELSE LET F == [a \in 1..Len(c.soa1) |->
                   [b \in 1..Len(c.soa2) |-> <<c.soa1[a], c.soa2[b]>>]]
       IN  FlatMap(F, 1, Len(c.soa1) + 1)

AllHandedPairs(cseq) ==
  LET F == [k \in 1..Len(cseq) |-> HandedPairs(cseq[k])]
  IN  FlatMap(F, 1, Len(cseq) + 1)

Occurrences(s, e) == Cardinality({k \in 1..Len(s) : s[k] = e})

\* the call counters after the calls cseq
Record(cnt, cseq) ==
  LET h == AllHandedPairs(cseq)
  IN  [pr \in DOMAIN cnt |-> cnt[pr] + Occurrences(h, pr)]

(***************************************************************************)
(* Base-cell schedules of the traversals.                                  *)
(***************************************************************************)
\* upper end (exclusive) of the base cells per axis
BaseEnd(g, t) ==
  IF t = "c18" THEN <<g.dims[1], g.dims[2], g.dims[3] - g.overlap[3]>>
  ELSE [k \in 1..3 |-> g.dims[k] - g.overlap[k]]

\* distance of two base cells of the same colour per axis
Stride(g, t) ==
  IF t = "c18" THEN <<2 * g.overlap[1] + 1, 2 * g.overlap[2] + 1, g.overlap[3] + 1>>
  ELSE [k \in 1..3 |-> g.overlap[k] + 1]

BaseCells(g, t) ==
  LET e == BaseEnd(g, t)
  IN  {c \in (0..(g.dims[1] - 1)) \X (0..(g.dims[2] - 1)) \X (0..(g.dims[3] - 1)) :
         c[1] < e[1] /\ c[2] < e[2] /\ c[3] < e[3]}

NumColours(g, t) == LET s == Stride(g, t) IN s[1] * s[2] * s[3]

ColourOf(g, t, c) ==
  LET s == Stride(g, t)
  IN  (c[1] % s[1]) + s[1] * ((c[2] % s[2]) + s[2] * (c[3] % s[3]))

\* the longest axis of the grid (1-based), the first one among equals
LongestAxis(d) ==
  IF d[1] >= d[2] /\ d[1] >= d[3] THEN 1
  ELSE IF d[2] >= d[3] THEN 2 ELSE 3

\* processBaseCell with the c18 base step for every traversal
processBaseCell_AlwaysC18(g, t, c) == C18processBaseCell(g, c[1], c[2], c[3])

\* the cell operations of the base step of traversal t at base cell c
processBaseCell(g, t, c) ==
  IF t = "c18" THEN C18processBaseCell(g, c[1], c[2], c[3])
  ELSE C08processBaseCell(g, threeToOneD(c[1], c[2], c[3], g.dims))

RECURSIVE SortedSeq(_, _)
\* the elements of S as a sequence in increasing order of key
SortedSeq(S, key) ==
  IF S = {} THEN <<>>
  ELSE LET m == CHOOSE e \in S : \A f \in S : key[e] <= key[f]
       IN  <<m>> \o SortedSeq(S \ {m}, key)

\* the order in which one thread runs the base steps
SequentialSchedule(g, t) ==
  LET B == BaseCells(g, t)
      n == NumCells(g.dims)
      key == [c \in B |->
                (IF t = "sliced" THEN c[LongestAxis(g.dims)] ELSE ColourOf(g, t, c)) * n
                + threeToOneD(c[1], c[2], c[3], g.dims)]
  IN  SortedSeq(B, key)

(***************************************************************************)
(* Particles: positions on a lattice, cutoff test, sorting into cells.     *)
(***************************************************************************)
Particles == 1..NumParticles

\* lattice points per cell and axis; the cutoff equals the cell length
CellLength == 2
Cutoff == 2

Positions(d) ==
  (0..(d[1] * CellLength - 1)) \X (0..(d[2] * CellLength - 1)) \X (0..(d[3] * CellLength - 1))

PosCode(p, d) == threeToOneD(p[1], p[2], p[3], [k \in 1..3 |-> d[k] * CellLength])

\* CellBlock3D: index of the cell that contains position p
CellOf(p, g) ==
  <<p[1] \div g.cellLength[1], p[2] \div g.cellLength[2], p[3] \div g.cellLength[3]>>

CellIndexOf(p, g) == LET c == CellOf(p, g) IN threeToOneD(c[1], c[2], c[3], g.dims)

Dist2(p, q) ==
  (p[1] - q[1]) * (p[1] - q[1]) + (p[2] - q[2]) * (p[2] - q[2]) + (p[3] - q[3]) * (p[3] - q[3])

WithinCutoff(ps, i, j) == Dist2(ps[i], ps[j]) < Cutoff * Cutoff

\* the cell vector: cell index (0-based) -> particles in it, in id order
FillCells(ps, g) ==
  LET ids == [p \in Particles |-> p]
      ci == [p \in Particles |-> CellIndexOf(ps[p], g)]
  IN  [c \in 0..(NumCells(g.dims) - 1) |->
         LET InC(p) == ci[p] = c IN SelectSeq(ids, InC)]

\* a cell of the outermost overlap layers (the halo) of the grid
IsHaloCell(c, g) ==
  \E k \in 1..3 : c[k] < g.overlap[k] \/ c[k] >= g.dims[k] - g.overlap[k]

(***************************************************************************)
(* Specification SpecPairs: one thread runs traverseParticlePairs over a   *)
(* placement of the particles on two lattice sites, base step by base step.*)
(***************************************************************************)
LCTraversals == {"c08", "c18", "sliced"}

PairsDims == <<GX, GY, GZ>>

\* the traversal object as constructed for the grid of this specification
PairsGeo == MakeGeo(PairsDims, <<CellLength, CellLength, CellLength>>, Cutoff)

PairsSchedule == Evaluated([t \in LCTraversals |-> SequentialSchedule(PairsGeo, t)])

PairsOps ==
  Evaluated([t \in LCTraversals |->
     [k \in 1..Len(PairsSchedule[t]) |-> processBaseCell(PairsGeo, t, PairsSchedule[t][k])]])

\* displacements between the two sites: the lattice neighbours, scaled
Deltas ==
  {<<m * d[1], m * d[2], m * d[3]>> : d \in (0 - 1 .. 1) \X (0 - 1 .. 1) \X (0 - 1 .. 1), m \in 1..Reach}

\* std::unique_ptr<TraversalInterface>(nullptr)
NoTraversal == [class |-> "nullptr"]

\* no traversal has been requested from the selector
SelIdle ==
  /\ functor = [allowsNewton3 |-> TRUE, allowsNonNewton3 |-> TRUE]
  /\ behavior = "throwException"
  /\ nDevices = 0
  /\ traversal = NoTraversal
  /\ errors = <<>>
  /\ log = <<>>
  /\ applicable = "unset"
  /\ cutoff = Cutoff

\* the LJ functor as constructed
LJConstructed ==
  /\ upotSum = 0
  /\ virialSum = <<0, 0, 0>>
  /\ postProcessed = FALSE
  /\ aosThreadData = <<>>

\* the Verlet-list container as constructed: no particle, no list built
VerletConstructed ==
  /\ owned = {}
  /\ halo = {}
  /\ buildPos = <<>>
  /\ aosNeighborLists = <<>>
  /\ soaNeighborLists = <<>>
  /\ soaListIsValid = FALSE
  /\ neighborListIsValid = FALSE
  /\ verletBuiltNewton3 = FALSE
  /\ stepsSinceRebuild = 0
  /\ changedSinceBuild = FALSE
  /\ quiet = TRUE
  /\ history = <<>>
  /\ returned = {}
  /\ updated = FALSE
  /\ outcome = <<>>

\* no functor with global values and no Verlet-list container take part
EngineIdle ==
  /\ calculateGlobals = FALSE
  /\ LJConstructed
  /\ rebuildFrequency = 1
  /\ VerletConstructed

PairsInit ==
  /\ pc = "traverse"
  /\ geo = PairsDims
  /\ traversalType \in LCTraversals
  /\ queue = 1
  /\ useNewton3 \in BOOLEAN
  /\ dataLayout = "aos"
  /\ \E siteA \in Positions(PairsDims) : \E d \in Deltas :
        LET siteB == <<siteA[1] + d[1], siteA[2] + d[2], siteA[3] + d[3]>>
        IN  /\ siteB \in Positions(PairsDims)
            /\ PosCode(siteA, PairsDims) <= PosCode(siteB, PairsDims)
            /\ pos \in [Particles -> {siteA, siteB}]
            /\ pos[1] = siteA
            /\ pos[NumParticles] = siteB
  /\ cells = FillCells(pos, PairsGeo)
  /\ calls = [pr \in Particles \X Particles |-> 0]
  /\ numThreads = 1
  /\ colour = 0
  /\ pending = {}
  /\ threads = {}
  /\ locks = <<>>
  /\ force = <<>>
  /\ aosCalls = 0
  /\ SelIdle
  /\ EngineIdle

\* one base step: processBaseCell at the next base cell of the schedule
PairsBaseStep ==
  /\ pc = "traverse"
  /\ queue <= Len(PairsSchedule[traversalType])
  /\ calls' = Record(calls, BaseStepCalls(cells, PairsOps[traversalType][queue],
                                          dataLayout = "soa", useNewton3))
  /\ queue' = queue + 1
  /\ UNCHANGED <<pc, geo, traversalType, useNewton3, dataLayout, cells, pos>>
  /\ UNCHANGED parVars
  /\ UNCHANGED selVars
  /\ UNCHANGED engineVars

\* traverseParticlePairs returns
PairsReturn ==
  /\ pc = "traverse"
  /\ queue > Len(PairsSchedule[traversalType])
  /\ pc' = "done"
  /\ UNCHANGED <<geo, traversalType, useNewton3, dataLayout, cells, pos, calls, queue>>
  /\ UNCHANGED parVars
  /\ UNCHANGED selVars
  /\ UNCHANGED engineVars

PairsNext == PairsBaseStep \/ PairsReturn

SpecPairs == PairsInit /\ [][PairsNext]_vars

(***************************************************************************)
(* Claims on SpecPairs.                                                    *)
(***************************************************************************)
HandedOnce(i, j) ==
  IF useNewton3 THEN calls[<<i, j>>] + calls[<<j, i>>] = 1
  ELSE calls[<<i, j>>] = 1 /\ calls[<<j, i>>] = 1

HandedAtMostOnce(i, j) ==
  IF useNewton3 THEN calls[<<i, j>>] + calls[<<j, i>>] <= 1
  ELSE calls[<<i, j>>] <= 1 /\ calls[<<j, i>>] <= 1

InInnerCell(i) == ~IsHaloCell(CellOf(pos[i], PairsGeo), PairsGeo)

NumThreads == 4

ParGrids == {<<GX, GY, GZ>>, <<2 * GX, GY, GZ>>, <<3 * GX, 2, 2>>}

ParGeo ==
  Evaluated([d \in ParGrids |-> MakeGeo(d, <<CellLength, CellLength, CellLength>>, Cutoff)])

\* GridGenerator::fillWithParticles: one particle per cell, named by its cell
GridCells(d) == [c \in 0..(NumCells(d) - 1) |-> <<c>>]

\* the cells a sequence of cell operations touches
Touched(ops) == {ops[k][1] : k \in DOMAIN ops} \cup {ops[k][2] : k \in DOMAIN ops}

\* the particles a sequence of functor calls writes
Written(cseq) ==
  {cseq[k].i : k \in DOMAIN cseq} \cup {cseq[k].j : k \in {m \in DOMAIN cseq : cseq[m].newton3}}

\* r_i - r_j of the particles of cells i and j, in cell lengths
Displacement(i, j, d) ==
  LET a == oneToThreeD(i, d)
      b == oneToThreeD(j, d)
  IN  <<a[1] - b[1], a[2] - b[2], a[3] - b[3]>>

\* SimpleFunctor::AoSFunctor(i, j, newton3): what one call adds to component
\* m of the force of particle x: F_i += r_i - r_j and, with newton3,
\* F_j -= r_i - r_j
Contribution(c, x, m, d) ==
  IF x = c.i THEN Displacement(c.i, c.j, d)[m]
  ELSE IF x = c.j /\ c.newton3 THEN 0 - Displacement(c.i, c.j, d)[m]
  ELSE 0

RECURSIVE ApplyCalls(_, _, _, _, _)
\* what the first k calls of cseq add to component m of the force of x
ApplyCalls(cseq, k, x, m, d) ==
  IF k = 0 THEN 0
  ELSE ApplyCalls(cseq, k - 1, x, m, d) + Contribution(cseq[k], x, m, d)

\* the cell operations of the base steps of the traversals on the grids
ParSteps ==
  Evaluated([d \in ParGrids |-> [t \in LCTraversals |->
     [c \in BaseCells(ParGeo[d], t) |-> processBaseCell(ParGeo[d], t, c)]]])

\* their functor calls, without and with newton3
ParCalls ==
  Evaluated([d \in ParGrids |-> [t \in LCTraversals |-> [n3 \in BOOLEAN |->
     [c \in BaseCells(ParGeo[d], t) |->
        BaseStepCalls(GridCells(d), ParSteps[d][t][c], FALSE, n3)]]]])

\* the functor calls of the base step at base cell c
StepCalls(d, t, c, n3) == ParCalls[d][t][n3][c]

\* what the base steps add to the forces of the particles they write
StepEffects ==
  [d \in ParGrids |-> [t \in LCTraversals |-> [n3 \in BOOLEAN |->
     [c \in BaseCells(ParGeo[d], t) |->
        [x \in Written(ParCalls[d][t][n3][c]) |->
           [m \in 1..3 |->
              ApplyCalls(ParCalls[d][t][n3][c], Len(ParCalls[d][t][n3][c]), x, m, d)]]]]]]

ParEffects == Evaluated(StepEffects)

\* the forces after a base step that read `read` wrote its results back
WriteBack(f, read, effect) ==
  [c \in DOMAIN f |->
     IF c \in DOMAIN effect
     THEN [m \in 1..3 |-> read[c][m] + effect[c][m]]
     ELSE f[c]]

ColouredTraversals == {"c08", "c18"}

\* the base cells of one colour
ColourCells(g, t, col) == {c \in BaseCells(g, t) : ColourOf(g, t, c) = col}

\* the base cells of the colours of the coloured traversals on the grids
ParColours ==
  Evaluated([d \in ParGrids |-> [t \in ColouredTraversals |->
     [col \in 0..(NumColours(ParGeo[d], t) - 1) |-> ColourCells(ParGeo[d], t, col)]]])

\* a thread takes a base cell of the current colour and reads the forces
ColourBeginStep ==
  /\ pc = "traverse"
  /\ traversalType \in ColouredTraversals
  /\ Cardinality(threads) < numThreads
  /\ \E c \in pending :
       /\ pending' = pending \ {c}
       /\ threads' = threads \cup
            {[base |-> c,
              read |-> [x \in Touched(ParSteps[geo][traversalType][c]) |-> force[x]]]}
  /\ UNCHANGED <<pc, geo, traversalType, useNewton3, dataLayout, cells, pos, calls, queue>>
  /\ UNCHANGED <<numThreads, colour, locks, force, aosCalls>>
  /\ UNCHANGED selVars
  /\ UNCHANGED engineVars

\* a thread finishes its base step: the functor calls are made and written
ColourEndStep ==
  /\ pc = "traverse"
  /\ traversalType \in ColouredTraversals
  /\ \E th \in threads :
       LET cseq == StepCalls(geo, traversalType, th.base, useNewton3)
       IN  /\ force' = WriteBack(force, th.read,
                                  ParEffects[geo][traversalType][useNewton3][th.base])
           /\ aosCalls' = aosCalls + Len(cseq)
           /\ threads' = threads \ {th}
  /\ UNCHANGED <<pc, geo, traversalType, useNewton3, dataLayout, cells, pos, calls, queue>>
  /\ UNCHANGED <<numThreads, colour, pending, locks>>
  /\ UNCHANGED selVars
  /\ UNCHANGED engineVars

\* the barrier at the end of a colour: the next colour starts
ColourNext ==
  /\ pc = "traverse"
  /\ traversalType \in ColouredTraversals
  /\ pending = {} /\ threads = {}
  /\ colour + 1 < NumColours(ParGeo[geo], traversalType)
  /\ colour' = colour + 1
  /\ pending' = ParColours[geo][traversalType][colour + 1]
  /\ UNCHANGED <<pc, geo, traversalType, useNewton3, dataLayout, cells, pos, calls, queue>>
  /\ UNCHANGED <<numThreads, threads, locks, force, aosCalls>>
  /\ UNCHANGED selVars
  /\ UNCHANGED engineVars

\* the last colour is finished: traverseParticlePairs returns
ColourReturn ==
  /\ pc = "traverse"
  /\ traversalType \in ColouredTraversals
  /\ pending = {} /\ threads = {}
  /\ colour + 1 = NumColours(ParGeo[geo], traversalType)
  /\ pc' = "done"
  /\ UNCHANGED <<geo, traversalType, useNewton3, dataLayout, cells, pos, calls, queue>>
  /\ UNCHANGED parVars
  /\ UNCHANGED selVars
  /\ UNCHANGED engineVars

\* SlicedBasedTraversal: the slabs along the longest axis
MinSliceThickness(g) == 2 * g.overlap[LongestAxis(g.dims)] + 1

\* one slab per thread, fewer when fewer fit
NumSlices(g, nThreads) ==
  MinOf(nThreads, g.dims[LongestAxis(g.dims)] \div MinSliceThickness(g))

\* first layer of slab k (0-based) of n
SliceStart(g, n, k) ==
  LET len == g.dims[LongestAxis(g.dims)]
  IN  k * (len \div n) + MinOf(k, len % n)

\* number of base layers of slab k of n: the last slab ends where the base
\* cells end
SliceThickness(g, n, k) ==
  LET len == g.dims[LongestAxis(g.dims)]
  IN  (len \div n) + (IF k < len % n THEN 1 ELSE 0)
        - (IF k = n - 1 THEN g.overlap[LongestAxis(g.dims)] ELSE 0)

\* the base cells of one layer, in index order
LayerCells(g, layer) ==
  LET B == {c \in BaseCells(g, "sliced") : c[LongestAxis(g.dims)] = layer}
  IN  SortedSeq(B, [c \in B |-> threeToOneD(c[1], c[2], c[3], g.dims)])

\* a lock is the set of its holders: empty when free
\* the layers of base cells of the grids
ParLayers ==
  Evaluated([d \in ParGrids |->
     [layer \in 0..(d[LongestAxis(d)] - 1) |-> LayerCells(ParGeo[d], layer)]])

Free == {}

SlabThread(stage, layer, todo, read) ==
  [stage |-> stage, layer |-> layer, todo |-> todo, read |-> read]

\* slab thread k starts: it takes the lock of the edge to the previous slab
SlicedStart(k) ==
  /\ threads[k].stage = "start"
  /\ k > 0 => locks[k] = Free
  /\ locks' = IF k > 0 THEN [locks EXCEPT ![k] = {k}] ELSE locks
  /\ threads' = [threads EXCEPT ![k].stage = "layer"]
  /\ UNCHANGED <<force, aosCalls>>

\* slab thread k enters its next layer: before the last layer of the slab
\* it takes the lock of the edge to the next slab
SlicedEnterLayer(k) ==
  LET g == ParGeo[geo]
      n == NumSlices(g, numThreads)
      th == threads[k]
      last == k < n - 1 /\ th.layer = SliceThickness(g, n, k) - 1
  IN  /\ th.stage = "layer"
      /\ last => locks[k + 1] = Free
      /\ locks' = IF last THEN [locks EXCEPT ![k + 1] = {k}] ELSE locks
      /\ threads' = [threads EXCEPT ![k] =
            SlabThread("work", th.layer, ParLayers[geo][SliceStart(g, n, k) + th.layer], <<>>)]
      /\ UNCHANGED <<force, aosCalls>>

\* slab thread k begins the base step at the next base cell of its layer
SlicedBeginStep(k) ==
  LET th == threads[k]
  IN  /\ th.stage = "work"
      /\ th.todo # <<>>
      /\ threads' = [threads EXCEPT ![k] =
            SlabThread("step", th.layer, th.todo,
              [x \in Touched(ParSteps[geo]["sliced"][Head(th.todo)]) |-> force[x]])]
      /\ UNCHANGED <<locks, force, aosCalls>>

\* slab thread k finishes its base step
SlicedEndStep(k) ==
  LET th == threads[k]
      cseq == StepCalls(geo, "sliced", Head(th.todo), useNewton3)
  IN  /\ th.stage = "step"
      /\ force' = WriteBack(force, th.read,
                             ParEffects[geo]["sliced"][useNewton3][Head(th.todo)])
      /\ aosCalls' = aosCalls + Len(cseq)
      /\ threads' = [threads EXCEPT ![k] = SlabThread("work", th.layer, Tail(th.todo), <<>>)]
      /\ UNCHANGED locks

\* SlicedLeaveLayer without the release after the first layer
SlicedLeaveLayer_KeepsLock(k) ==
  LET g == ParGeo[geo]
      n == NumSlices(g, numThreads)
      th == threads[k]
      thick == SliceThickness(g, n, k)
  IN  /\ th.stage = "work"
      /\ th.todo = <<>>
      /\ locks' = IF k < n - 1 /\ th.layer = thick - 1 THEN [locks EXCEPT ![k + 1] = Free]
                  ELSE locks
      /\ threads' = [threads EXCEPT ![k] =
            SlabThread(IF th.layer + 1 = thick THEN "finished" ELSE "layer", th.layer + 1, <<>>, <<>>)]
      /\ UNCHANGED <<force, aosCalls>>

\* slab thread k has finished a layer: after its first layer it releases
\* the lock of the previous edge, after its last layer that of the next edge
SlicedLeaveLayer(k) ==
  LET g == ParGeo[geo]
      n == NumSlices(g, numThreads)
      th == threads[k]
      thick == SliceThickness(g, n, k)
  IN  /\ th.stage = "work"
      /\ th.todo = <<>>
      /\ locks' = IF k > 0 /\ th.layer = 0 THEN [locks EXCEPT ![k] = Free]
                  ELSE IF k < n - 1 /\ th.layer = thick - 1 THEN [locks EXCEPT ![k + 1] = Free]
                  ELSE locks
      /\ threads' = [threads EXCEPT ![k] =
            SlabThread(IF th.layer + 1 = thick THEN "finished" ELSE "layer", th.layer + 1, <<>>, <<>>)]
      /\ UNCHANGED <<force, aosCalls>>

SlicedStep(k) ==
  /\ pc = "traverse"
  /\ traversalType = "sliced"
  /\ \/ SlicedStart(k)
     \/ SlicedEnterLayer(k)
     \/ SlicedBeginStep(k)
     \/ SlicedEndStep(k)
     \/ SlicedLeaveLayer(k)
  /\ UNCHANGED <<pc, geo, traversalType, useNewton3, dataLayout, cells, pos, calls, queue>>
  /\ UNCHANGED <<numThreads, colour, pending>>
  /\ UNCHANGED selVars
  /\ UNCHANGED engineVars

\* all slab threads have finished: traverseParticlePairs returns
SlicedReturn ==
  /\ pc = "traverse"
  /\ traversalType = "sliced"
  /\ \A k \in DOMAIN threads : threads[k].stage = "finished"
  /\ pc' = "done"
  /\ UNCHANGED <<geo, traversalType, useNewton3, dataLayout, cells, pos, calls, queue>>
  /\ UNCHANGED parVars
  /\ UNCHANGED selVars
  /\ UNCHANGED engineVars

ParInit ==
  /\ pc = "traverse"
  /\ geo \in ParGrids
  /\ traversalType \in LCTraversals
  /\ useNewton3 \in BOOLEAN
  /\ dataLayout = "aos"
  /\ numThreads \in 1..NumThreads
  /\ cells = GridCells(geo)
  /\ pos = <<>>
  /\ calls = <<>>
  /\ queue = 0
  /\ colour = 0
  /\ pending = IF traversalType = "sliced" THEN {}
               ELSE ParColours[geo][traversalType][0]
  /\ threads = IF traversalType = "sliced"
               THEN [k \in 0..(NumSlices(ParGeo[geo], numThreads) - 1) |->
                       SlabThread("start", 0, <<>>, <<>>)]
               ELSE {}
  /\ locks = IF traversalType = "sliced"
             THEN [k \in 1..(NumSlices(ParGeo[geo], numThreads) - 1) |-> Free]
             ELSE <<>>
  /\ force = [c \in 0..(NumCells(geo) - 1) |-> <<0, 0, 0>>]
  /\ aosCalls = 0
  /\ SelIdle
  /\ EngineIdle

ParNext ==
  \/ ColourBeginStep
  \/ ColourEndStep
  \/ ColourNext
  \/ ColourReturn
  \/ \E k \in 0..(NumThreads - 1) :
        traversalType = "sliced" /\ k \in DOMAIN threads /\ SlicedStep(k)
  \/ SlicedReturn

SpecPar == ParInit /\ [][ParNext]_vars

\* the scheduler never leaves all runnable threads waiting for ever
FairSpecPar == SpecPar /\ WF_vars(ParNext)

(***************************************************************************)
(* Claims on SpecPar.                                                      *)
(***************************************************************************)
\* the cells touched by the base step a thread of a coloured traversal runs
TouchedBy(th) == Touched(ParSteps[geo][traversalType][th.base])

LayerTouched(k) ==
  LET g == ParGeo[geo]
      n == NumSlices(g, numThreads)
      L == ParLayers[geo][SliceStart(g, n, k) + threads[k].layer]
  IN  UNION {Touched(ParSteps[geo]["sliced"][L[m]]) : m \in DOMAIN L}

Working(k) == threads[k].stage \in {"work", "step"}

C5_Terminates == <>(pc = "done")

\* a sliced traversal with three slabs has returned
C5_Witness ==
  /\ pc = "done"
  /\ traversalType = "sliced"
  /\ Cardinality(DOMAIN threads) = 3

\* C6: a newton3 sliced traversal on a grid with one particle per cell and
\* overlap 1 has called AoSFunctor 13 times per base cell when it returns,
\* whatever the number of threads and slabs.
C6_SlicedCallCount ==
  (pc = "done" /\ traversalType = "sliced" /\ useNewton3) =>
    aosCalls = 13 * (geo[1] - 1) * (geo[2] - 1) * (geo[3] - 1)

\* the cube with four threads: one slab only, 13 * (n - 1)^3 calls
C6_Witness ==
  /\ pc = "done"
  /\ traversalType = "sliced"
  /\ useNewton3
  /\ geo = <<GX, GY, GZ>>
  /\ GX = GY /\ GY = GZ
  /\ numThreads = NumThreads
  /\ Cardinality(DOMAIN threads) < numThreads
  /\ aosCalls = 13 * (GX - 1) * (GX - 1) * (GX - 1)

(***************************************************************************)
(* SlicedTraversal::isApplicable, asked of a freshly constructed traversal *)
(* (the testIsApplicable tests of SlicedTraversalTest).                    *)
(***************************************************************************)
MaxDim == 11

\* the cells of the test grids have unit length
UnitCells == <<1, 1, 1>>

\* the interaction lengths of the grids: overlap 1 and overlap 2
InteractionLengths == {1, 2}

\* isApplicable that asks for one slab for every available thread
SlicedIsApplicable_PerThread(g, nThreads) ==
  g.dims[LongestAxis(g.dims)] \div MinSliceThickness(g) >= nThreads

\* the traversal is applicable when the slab layout has at least one slab
SlicedIsApplicable(g, nThreads) ==
  NumSlices(g, nThreads) >= 1

ApplicableInit ==
  /\ pc = "constructed"
  /\ geo \in (1..MaxDim) \X (1..MaxDim) \X (1..MaxDim)
  /\ traversalType = "sliced"
  /\ useNewton3 = TRUE
  /\ dataLayout = "aos"
  /\ numThreads \in 1..NumThreads
  /\ cells = <<>>
  /\ pos = <<>>
  /\ calls = <<>>
  /\ queue = 0
  /\ colour = 0
  /\ pending = {}
  /\ threads = {}
  /\ locks = <<>>
  /\ force = <<>>
  /\ aosCalls = 0
  /\ functor = [allowsNewton3 |-> TRUE, allowsNonNewton3 |-> TRUE]
  /\ behavior = "throwException"
  /\ nDevices = 0
  /\ traversal = NoTraversal
  /\ errors = <<>>
  /\ log = <<>>
  /\ applicable = "unset"
  /\ cutoff \in InteractionLengths
  /\ EngineIdle

\* slicedTraversal.isApplicable()
AskIsApplicable ==
  /\ pc = "constructed"
  /\ applicable' = SlicedIsApplicable(BaseGeo(geo, UnitCells, cutoff), numThreads)
  /\ pc' = "asked"
  /\ UNCHANGED <<geo, traversalType, useNewton3, dataLayout, cells, pos, calls, queue>>
  /\ UNCHANGED parVars
  /\ UNCHANGED <<functor, behavior, nDevices, traversal, errors, log, cutoff>>
  /\ UNCHANGED engineVars

ApplicableNext == AskIsApplicable

SpecApplicable == ApplicableInit /\ [][ApplicableNext]_vars

\* the overlap of the grid of the current state
AskedOverlap == computeOverlap(cutoff, UnitCells)[1]

TraversalOptions ==
  {"directSumTraversal", "c08", "sliced", "c18", "c01", "c04SoA", "c04",
   "c01CombinedSoA", "slicedVerlet", "c18Verlet", "c01Verlet", "c01Cuda",
   "verletTraversal", "verletClusters", "verletClustersColoring",
   "varVerletTraversalAsBuild"}

\* TraversalOption(-1): a value of the enumeration type that names no option
UnknownTraversalOption == "TraversalOption(-1)"

DataLayouts == {"aos", "soa", "cuda"}

Newton3Options == {"enabled", "disabled"}

ExceptionBehaviors == {"ignore", "throwException", "printAbort", "printCustomAbortFunction"}

UnknownTypeError == "Traversal type is not a known type!"

NotApplicableError == "Trying to execute a traversal that is not applicable"

\* what ExceptionHandler::exception does to the caller's control flow
ExceptionOutcome(b) ==
  CASE b = "throwException" -> "thrown"
    [] b = "printAbort" -> "aborted"
    [] OTHER -> "continues"

\* a switch whose c04 case constructs the traversal of the c04SoA case
TraversalClass_C04AsC04SoA(option) ==
  IF option = "c04" THEN "C04SoATraversal"
  ELSE CASE option = "directSumTraversal" -> "DirectSumTraversal"
         [] option = "c08" -> "C08Traversal"
         [] option = "sliced" -> "SlicedTraversal"
         [] option = "c18" -> "C18Traversal"
         [] option = "c01" -> "C01Traversal"
         [] option = "c04SoA" -> "C04SoATraversal"
         [] option = "c01CombinedSoA" -> "C01Traversal"
         [] option = "slicedVerlet" -> "SlicedTraversalVerlet"
         [] option = "c18Verlet" -> "C18TraversalVerlet"
         [] option = "c01Verlet" -> "C01TraversalVerlet"
         [] option = "c01Cuda" -> "C01CudaTraversal"
         [] option = "verletTraversal" -> "TraversalVerlet"
         [] option = "verletClusters" -> "VerletClustersTraversal"
         [] option = "verletClustersColoring" -> "VerletClustersColoringTraversal"
         [] option = "varVerletTraversalAsBuild" -> "VarVerletTraversalAsBuild"

\* the class template each case of the switch instantiates
TraversalClass(option) ==
  CASE option = "directSumTraversal" -> "DirectSumTraversal"
    [] option = "c08" -> "C08Traversal"
    [] option = "sliced" -> "SlicedTraversal"
    [] option = "c18" -> "C18Traversal"
    [] option = "c01" -> "C01Traversal"
    [] option = "c04SoA" -> "C04SoATraversal"
    [] option = "c04" -> "C04Traversal"
    [] option = "c01CombinedSoA" -> "C01Traversal"
    [] option = "slicedVerlet" -> "SlicedTraversalVerlet"
    [] option = "c18Verlet" -> "C18TraversalVerlet"
    [] option = "c01Verlet" -> "C01TraversalVerlet"
    [] option = "c01Cuda" -> "C01CudaTraversal"
    [] option = "verletTraversal" -> "TraversalVerlet"
    [] option = "verletClusters" -> "VerletClustersTraversal"
    [] option = "verletClustersColoring" -> "VerletClustersColoringTraversal"
    [] option = "varVerletTraversalAsBuild" -> "VarVerletTraversalAsBuild"

\* generateTraversal<PairwiseFunctor, dataLayout, useNewton3>(traversalType,
\* pairwiseFunctor, info): the traversal object, or NoTraversal when the
\* switch falls through
generateTraversalTemplate(option, layout, n3, info) ==
  IF option \in TraversalOptions
  THEN [class |-> TraversalClass(option),
        combineSoA |-> (option = "c01CombinedSoA"),
        DataLayout |-> layout,
        useNewton3 |-> n3,
        info |-> info]
  ELSE NoTraversal

\* generateTraversal(traversalType, pairwiseFunctor, traversalInfo, dataLayout,
\* newton3): the dispatch from the run-time layout and newton3 option to the
\* template instance
generateTraversal(option, layout, newton3, info) ==
  CASE layout = "aos" ->
         IF newton3 = "enabled" THEN generateTraversalTemplate(option, "aos", TRUE, info)
         ELSE generateTraversalTemplate(option, "aos", FALSE, info)
    [] layout = "soa" ->
         IF newton3 = "enabled" THEN generateTraversalTemplate(option, "soa", TRUE, info)
         ELSE generateTraversalTemplate(option, "soa", FALSE, info)
    [] layout = "cuda" ->
         IF newton3 = "enabled" THEN generateTraversalTemplate(option, "cuda", TRUE, info)
         ELSE generateTraversalTemplate(option, "cuda", FALSE, info)
    [] OTHER -> NoTraversal

(***************************************************************************)
(* The traversal interface: getTraversalType, getDataLayout, getUseNewton3 *)
(* and isApplicable of the traversal classes.                              *)
(***************************************************************************)
getTraversalType(t) ==
  CASE t.class = "C18Traversal" -> "c18"
    [] t.class = "C04SoATraversal" -> "c04SoA"
    [] t.class = "SlicedTraversalVerlet" -> "slicedVerlet"
    [] t.class = "C01TraversalVerlet" -> "c01Verlet"
    [] t.class = "TraversalVerlet" -> "verletTraversal"
    [] t.class = "DirectSumTraversal" -> "directSumTraversal"
    [] t.class = "C08Traversal" -> "c08"
    [] t.class = "SlicedTraversal" -> "sliced"
    [] t.class = "C01Traversal" -> IF t.combineSoA THEN "c01CombinedSoA" ELSE "c01"
    [] t.class = "C04Traversal" -> "c04"
    [] t.class = "C18TraversalVerlet" -> "c18Verlet"
    [] t.class = "C01CudaTraversal" -> "c01Cuda"
    [] t.class = "VerletClustersTraversal" -> "verletClusters"
    [] t.class = "VerletClustersColoringTraversal" -> "verletClustersColoring"
    [] t.class = "VarVerletTraversalAsBuild" -> "varVerletTraversalAsBuild"

getDataLayout(t) == t.DataLayout

getUseNewton3(t) == t.useNewton3

\* C18Traversal::isApplicable
C18TraversalIsApplicable(t, devices) ==
  IF t.DataLayout = "cuda" THEN devices > 0 ELSE TRUE

\* C04SoATraversal::isApplicable
C04SoATraversalIsApplicable(t) == t.DataLayout = "soa"

\* SlicedTraversalVerlet::isApplicable
SlicedTraversalVerletIsApplicable(t) == t.DataLayout = "aos"

\* C01TraversalVerlet::isApplicable without the newton3 condition
C01TraversalVerletIsApplicable_AnyNewton3(t) == t.DataLayout = "aos"

\* C01TraversalVerlet::isApplicable
C01TraversalVerletIsApplicable(t) == (~t.useNewton3) /\ (t.DataLayout = "aos")

\* TraversalVerlet::isApplicable
TraversalVerletIsApplicable(t) == t.DataLayout = "aos" \/ t.DataLayout = "soa"

\* the composition rules of the other traversal classes: a cuda layout needs
\* a device, c01 does not permit newton3, sliced needs room for one slab
OtherTraversalIsApplicable(t, nThreads, devices) ==
  /\ t.DataLayout = "cuda" => devices > 0
  /\ t.class = "C01Traversal" => ~t.useNewton3
  /\ t.class = "SlicedTraversal" =>
       SlicedIsApplicable(BaseGeo(t.info.dims, t.info.cellLength, t.info.interactionLength),
                          nThreads)

\* traversal->isApplicable()
isApplicable(t, nThreads, devices) ==
  CASE t.class = "C18Traversal" -> C18TraversalIsApplicable(t, devices)
    [] t.class = "C04SoATraversal" -> C04SoATraversalIsApplicable(t)
    [] t.class = "SlicedTraversalVerlet" -> SlicedTraversalVerletIsApplicable(t)
    [] t.class = "C01TraversalVerlet" -> C01TraversalVerletIsApplicable(t)
    [] t.class = "TraversalVerlet" -> TraversalVerletIsApplicable(t)
    [] OTHER -> OtherTraversalIsApplicable(t, nThreads, devices)

(***************************************************************************)
(* One request to the selector and the execution of the traversal it       *)
(* returns.                                                                *)
(***************************************************************************)
\* the grids of the selector info: too small for a slab, and large enough
SelGrids == {<<1, 1, 1>>, <<5, 5, 5>>}

TraversalSelectorInfo(dims, interactionLength) ==
  [dims |-> dims, interactionLength |-> interactionLength, cellLength |-> UnitCells]

SelInit ==
  /\ pc = "request"
  /\ geo \in SelGrids
  /\ traversalType \in TraversalOptions \cup {UnknownTraversalOption}
  /\ useNewton3 \in Newton3Options
  /\ dataLayout \in DataLayouts
  /\ numThreads = NumThreads
  /\ cells = <<>>
  /\ pos = <<>>
  /\ calls = <<>>
  /\ queue = 0
  /\ colour = 0
  /\ pending = {}
  /\ threads = {}
  /\ locks = <<>>
  /\ force = <<>>
  /\ aosCalls = 0
  /\ functor \in [allowsNewton3 : BOOLEAN, allowsNonNewton3 : BOOLEAN]
  /\ behavior \in ExceptionBehaviors
  /\ nDevices \in {0, 1}
  /\ traversal = NoTraversal
  /\ errors = <<>>
  /\ log = <<>>
  /\ applicable = "unset"
  /\ cutoff \in InteractionLengths
  /\ EngineIdle

\* TraversalSelector::generateTraversal(traversalType, pairwiseFunctor,
\* traversalInfo, dataLayout, newton3)
GenerateTraversal ==
  /\ pc = "request"
  /\ LET t == generateTraversal(traversalType, dataLayout, useNewton3,
                                TraversalSelectorInfo(geo, cutoff))
     IN  IF t # NoTraversal
         THEN /\ traversal' = t
              /\ pc' = "generated"
              /\ UNCHANGED errors
         ELSE /\ errors' = Append(errors, UnknownTypeError)
              /\ traversal' = NoTraversal
              /\ pc' = IF ExceptionOutcome(behavior) = "continues" THEN "returned"
                       ELSE ExceptionOutcome(behavior)
  /\ UNCHANGED <<geo, traversalType, useNewton3, dataLayout, cells, pos, calls, queue>>
  /\ UNCHANGED parVars
  /\ UNCHANGED <<functor, behavior, nDevices, log, applicable, cutoff>>
  /\ UNCHANGED engineVars

\* the engine asks the traversal whether it is applicable before it runs it
CheckApplicable ==
  /\ pc = "generated"
  /\ applicable' = isApplicable(traversal, numThreads, nDevices)
  /\ IF applicable'
     THEN pc' = "applicable" /\ UNCHANGED errors
     ELSE pc' = "rejected" /\ errors' = Append(errors, NotApplicableError)
  /\ UNCHANGED <<geo, traversalType, useNewton3, dataLayout, cells, pos, calls, queue>>
  /\ UNCHANGED parVars
  /\ UNCHANGED <<functor, behavior, nDevices, traversal, log, cutoff>>
  /\ UNCHANGED engineVars

\* the functor entry point a traversal of the layout calls for a pair
FunctorEntry(layout) ==
  CASE layout = "aos" -> "AoSFunctor"
    [] layout = "soa" -> "SoAFunctor"
    [] layout = "cuda" -> "CudaFunctor"

\* container.iteratePairwise(traversal): initTraversal, the pair calls of
\* traverseParticlePairs with the traversal's newton3 mode, endTraversal
IteratePairwise ==
  /\ pc = "applicable"
  /\ log' = log \o << <<"initTraversal">>,
                      <<FunctorEntry(getDataLayout(traversal)), getUseNewton3(traversal)>>,
                      <<"endTraversal", getUseNewton3(traversal)>> >>
  /\ pc' = "done"
  /\ UNCHANGED <<geo, traversalType, useNewton3, dataLayout, cells, pos, calls, queue>>
  /\ UNCHANGED parVars
  /\ UNCHANGED <<functor, behavior, nDevices, traversal, errors, applicable, cutoff>>
  /\ UNCHANGED engineVars

SelNext ==
  \/ GenerateTraversal
  \/ CheckApplicable
  \/ IteratePairwise

SpecSel == SelInit /\ [][SelNext]_vars

(***************************************************************************)
(* Claims on SpecSel.                                                      *)
(***************************************************************************)
\* the functor has been invoked: initTraversal, a pair call or endTraversal
FunctorInvoked == log # <<>>

C9_FunctorContract ==
  \A i \in DOMAIN log :
    Len(log[i]) = 2 =>
      /\ log[i][2] => functor.allowsNewton3
      /\ ~log[i][2] => functor.allowsNonNewton3

\* C10: for every known traversal option, data layout and newton3 option
\* generateTraversal returns a traversal whose getTraversalType(),
\* getDataLayout() and getUseNewton3() are the requested ones, whatever the
\* functor, the grid and the devices; for a value that is no known option it
\* reports the "not a known type" error to the exception handler (which
\* throws under the throwException behaviour) and returns no usable traversal.
C10_SelectorReturnsRequested ==
  pc # "request" =>
    IF traversalType \in TraversalOptions
    THEN /\ traversal # NoTraversal
         /\ getTraversalType(traversal) = traversalType
         /\ getDataLayout(traversal) = dataLayout
         /\ getUseNewton3(traversal) = (useNewton3 = "enabled")
         /\ \A i \in DOMAIN errors : errors[i] # UnknownTypeError
    ELSE /\ traversal = NoTraversal
         /\ errors = <<UnknownTypeError>>
         /\ pc \in {"thrown", "aborted", "returned"}
         /\ behavior = "throwException" => pc = "thrown"
         /\ ~FunctorInvoked

\* the selector returned the c01CombinedSoA traversal for the soa layout
\* without newton3
C10_Witness ==
  /\ pc = "generated"
  /\ traversalType = "c01CombinedSoA"
  /\ dataLayout = "soa"
  /\ useNewton3 = "disabled"
  /\ getTraversalType(traversal) = "c01CombinedSoA"
  /\ getDataLayout(traversal) = "soa"
  /\ getUseNewton3(traversal) = FALSE

(***************************************************************************)
(* LJFunctorAVX2: the global values (potential energy, virial) and their   *)
(* reset / post-process protocol.                                          *)
(***************************************************************************)
MaxCalls == 4

AlreadyPostProcessedError == "Already postprocessed"

NotPostProcessedError == "Not yet postprocessed"

NoGlobalsError == "calculateGlobals is false"

\* AoSThreadData::setZero
ZeroThreadData == [upotSum |-> 0, virialSum |-> <<0, 0, 0>>]

\* thread buffers after a traversal: none, or one with accumulated values
ThreadBuffers == {<<>>, <<[upotSum |-> 12, virialSum |-> <<2, 4, 6>>]>>}

RECURSIVE SumUpot(_, _)
SumUpot(td, k) == IF k = 0 THEN 0 ELSE SumUpot(td, k - 1) + td[k].upotSum

RECURSIVE SumVirial(_, _, _)
SumVirial(td, k, m) == IF k = 0 THEN 0 ELSE SumVirial(td, k - 1, m) + td[k].virialSum[m]

\* the functor calls of this specification leave the rest of the state alone
LJFrame ==
  /\ UNCHANGED <<pc, geo, traversalType, useNewton3, dataLayout, cells, pos, calls, queue>>
  /\ UNCHANGED parVars
  /\ UNCHANGED <<functor, behavior, nDevices, traversal, applicable, cutoff>>
  /\ UNCHANGED calculateGlobals
  /\ UNCHANGED verletVars

LJInit ==
  /\ pc = "functor"
  /\ geo = <<1, 1, 1>>
  /\ traversalType = "none"
  /\ useNewton3 = TRUE
  /\ dataLayout = "aos"
  /\ cells = <<>>
  /\ pos = <<>>
  /\ calls = <<>>
  /\ queue = 0
  /\ numThreads = 1
  /\ colour = 0
  /\ pending = {}
  /\ threads = {}
  /\ locks = <<>>
  /\ force = <<>>
  /\ aosCalls = 0
  /\ SelIdle
  /\ calculateGlobals \in BOOLEAN
  /\ upotSum = 0
  /\ virialSum = <<0, 0, 0>>
  /\ postProcessed = FALSE
  /\ aosThreadData \in ThreadBuffers
  /\ rebuildFrequency = 1
  /\ VerletConstructed

\* resetGlobalValues that leaves _postProcessed as it is
ResetGlobalValues_KeepsPostProcessed ==
  /\ Len(log) < MaxCalls
  /\ upotSum' = 0
  /\ virialSum' = <<0, 0, 0>>
  /\ postProcessed' = postProcessed
  /\ aosThreadData' = [i \in DOMAIN aosThreadData |-> ZeroThreadData]
  /\ log' = Append(log, <<"resetGlobalValues", "ok">>)
  /\ UNCHANGED errors
  /\ LJFrame

\* LJFunctorAVX2::resetGlobalValues
ResetGlobalValues ==
  /\ Len(log) < MaxCalls
  /\ upotSum' = 0
  /\ virialSum' = <<0, 0, 0>>
  /\ postProcessed' = FALSE
  /\ aosThreadData' = [i \in DOMAIN aosThreadData |-> ZeroThreadData]
  /\ log' = Append(log, <<"resetGlobalValues", "ok">>)
  /\ UNCHANGED errors
  /\ LJFrame

\* LJFunctorAVX2::postProcessGlobalValues(newton3)
PostProcessGlobalValues(newton3) ==
  /\ Len(log) < MaxCalls
  /\ IF postProcessed
     THEN /\ errors' = Append(errors, AlreadyPostProcessedError)
          /\ log' = Append(log, <<"postProcessGlobalValues", "raised">>)
          /\ UNCHANGED <<upotSum, virialSum, postProcessed, aosThreadData>>
     ELSE LET n == Len(aosThreadData)
              u == upotSum + SumUpot(aosThreadData, n)
              v == [m \in 1..3 |-> virialSum[m] + SumVirial(aosThreadData, n, m)]
          IN  /\ upotSum' = (IF newton3 THEN u ELSE u \div 2) \div 6
              /\ virialSum' = IF newton3 THEN v ELSE [m \in 1..3 |-> v[m] \div 2]
              /\ postProcessed' = TRUE
              /\ log' = Append(log, <<"postProcessGlobalValues", "ok">>)
              /\ UNCHANGED <<errors, aosThreadData>>
  /\ LJFrame

\* LJFunctorAVX2::getUpot
GetUpot ==
  /\ Len(log) < MaxCalls
  /\ IF ~calculateGlobals
     THEN /\ errors' = Append(errors, NoGlobalsError)
          /\ log' = Append(log, <<"getUpot", "raised">>)
     ELSE IF ~postProcessed
     THEN /\ errors' = Append(errors, NotPostProcessedError)
          /\ log' = Append(log, <<"getUpot", "raised">>)
     ELSE /\ log' = Append(log, <<"getUpot", "ok", upotSum>>)
          /\ UNCHANGED errors
  /\ UNCHANGED <<upotSum, virialSum, postProcessed, aosThreadData>>
  /\ LJFrame

\* LJFunctorAVX2::getVirial
GetVirial ==
  /\ Len(log) < MaxCalls
  /\ IF ~calculateGlobals
     THEN /\ errors' = Append(errors, NoGlobalsError)
          /\ log' = Append(log, <<"getVirial", "raised">>)
     ELSE IF ~postProcessed
     THEN /\ errors' = Append(errors, NotPostProcessedError)
          /\ log' = Append(log, <<"getVirial", "raised">>)
     ELSE /\ log' = Append(log, <<"getVirial", "ok", virialSum[1] + virialSum[2] + virialSum[3]>>)
          /\ UNCHANGED errors
  /\ UNCHANGED <<upotSum, virialSum, postProcessed, aosThreadData>>
  /\ LJFrame

LJNext ==
  \/ ResetGlobalValues
  \/ \E newton3 \in BOOLEAN : PostProcessGlobalValues(newton3)
  \/ GetUpot
  \/ GetVirial

SpecGlobals == LJInit /\ [][LJNext]_vars

\* call k of the history was preceded by a successful post-processing with no
\* resetGlobalValues in between
PostProcessedSinceReset(k) ==
  \E j \in 1..(k - 1) :
    /\ log[j][1] = "postProcessGlobalValues"
    /\ log[j][2] = "ok"
    /\ \A i \in (j + 1)..(k - 1) : log[i][1] # "resetGlobalValues"

\* a postProcessGlobalValues raises exactly when it repeats one without a reset
PostProcessProtocol ==
  \A k \in DOMAIN log :
    log[k][1] = "postProcessGlobalValues"
      => (log[k][2] = "raised" <=> PostProcessedSinceReset(k))

Accessors == {"getUpot", "getVirial"}

\* C19 as stated: a repeated postProcessGlobalValues without a reset between
\* raises, getUpot and getVirial raise unless post-processing has happened
\* since the last reset, and succeed once it has.
C19_AsStated ==
  /\ PostProcessProtocol
  /\ \A k \in DOMAIN log :
       log[k][1] \in Accessors
         => (log[k][2] = "raised" <=> ~PostProcessedSinceReset(k))

\* C19: a repeated postProcessGlobalValues without a reset between raises;
\* getUpot and getVirial of a functor built with calculateGlobals raise
\* unless post-processing has happened since the last reset and succeed once it
\* has; those of a functor built without calculateGlobals always raise.
C19_GlobalsProtocol ==
  /\ PostProcessProtocol
  /\ \A k \in DOMAIN log :
       log[k][1] \in Accessors
         => (log[k][2] = "raised"
               <=> (~calculateGlobals \/ ~PostProcessedSinceReset(k)))

\* post-process, post-process again (raises), reset, post-process, read: the
\* functor with globals answers
C19_Witness ==
  /\ calculateGlobals
  /\ Len(log) = MaxCalls
  /\ log[1] = <<"postProcessGlobalValues", "ok">>
  /\ log[2] = <<"resetGlobalValues", "ok">>
  /\ log[3] = <<"postProcessGlobalValues", "ok">>
  /\ log[4][1] = "getUpot"
  /\ log[4][2] = "ok"

(***************************************************************************)
(* DirectSumTraversal over the owned cell and the halo cell.               *)
(***************************************************************************)
MaxOwned == 4
MaxHalo == 3

\* cells[0] holds the owned particles, cells[1] the halo particles
OwnedCell == 1
HaloCell == 2

DSFrame ==
  /\ UNCHANGED <<geo, traversalType, useNewton3, dataLayout, cells, pos, calls, queue>>
  /\ UNCHANGED parVars
  /\ UNCHANGED <<functor, behavior, nDevices, traversal, errors, applicable, cutoff>>
  /\ UNCHANGED engineVars

\* testTraversal: numParticles particles in cells[0], numHaloParticles in cells[1]
DSInit ==
  /\ pc = "processCell"
  /\ geo = <<1, 1, 1>>
  /\ traversalType = "directSumTraversal"
  /\ useNewton3 \in BOOLEAN
  /\ dataLayout \in {"aos", "soa"}
  /\ \E numParticles \in 0..MaxOwned : \E numHaloParticles \in 0..MaxHalo :
       cells = <<[k \in 1..numParticles |-> k],
                 [k \in 1..numHaloParticles |-> numParticles + k]>>
  /\ pos = <<>>
  /\ calls = <<>>
  /\ queue = 0
  /\ numThreads = 1
  /\ colour = 0
  /\ pending = {}
  /\ threads = {}
  /\ locks = <<>>
  /\ force = <<>>
  /\ aosCalls = 0
  /\ SelIdle
  /\ EngineIdle

\* traverseParticlePairs, first half: the owned cell with itself
DirectSumProcessCell ==
  /\ pc = "processCell"
  /\ log' = log \o processCell(cells[OwnedCell], dataLayout = "soa", useNewton3)
  /\ pc' = "processCellPair"
  /\ DSFrame

\* the second half processing the halo cell with itself as well
DirectSumProcessCellPair_AlsoHaloCell ==
  /\ pc = "processCellPair"
  /\ log' = log \o processCellPair(cells[OwnedCell], cells[HaloCell],
                                   dataLayout = "soa", useNewton3)
                \o processCell(cells[HaloCell], dataLayout = "soa", useNewton3)
  /\ pc' = "done"
  /\ DSFrame

\* traverseParticlePairs, second half: the owned cell with the halo cell
DirectSumProcessCellPair ==
  /\ pc = "processCellPair"
  /\ log' = log \o processCellPair(cells[OwnedCell], cells[HaloCell],
                                   dataLayout = "soa", useNewton3)
  /\ pc' = "done"
  /\ DSFrame

DSNext == DirectSumProcessCell \/ DirectSumProcessCellPair

SpecDirectSum == DSInit /\ [][DSNext]_vars

\* number of AoSFunctor(_, _, true) calls applied to the unordered pair {p, q}
AoSN3CallsOn(p, q) ==
  Cardinality({k \in DOMAIN log :
     /\ log[k].fn = "AoS"
     /\ log[k].newton3
     /\ {log[k].i, log[k].j} = {p, q}})

CallsNamed(fn) == {k \in DOMAIN log : log[k].fn = fn /\ log[k].newton3}

\* C20: DirectSumTraversal with newton3 over an owned cell of n particles and
\* a halo cell of h particles calls AoSFunctor(_, _, true) n(n-1)/2 + n*h
\* times, once per owned-owned and per owned-halo pair and never for two halo
\* particles; in SoA layout it makes one single-buffer and one two-buffer
\* SoAFunctor call.
C20_DirectSumCalls ==
  (pc = "done" /\ useNewton3) =>
    LET n == Len(cells[OwnedCell])
        h == Len(cells[HaloCell])
    IN  IF dataLayout = "aos"
        THEN /\ Cardinality(CallsNamed("AoS")) = (n * (n - 1)) \div 2 + n * h
             /\ Len(log) = Cardinality(CallsNamed("AoS"))
             /\ \A p \in 1..(n + h) : \A q \in 1..(n + h) :
                  p < q => AoSN3CallsOn(p, q) = (IF p <= n THEN 1 ELSE 0)
        ELSE /\ Cardinality(CallsNamed("SoA1")) = 1
             /\ Cardinality(CallsNamed("SoA2")) = 1
             /\ Len(log) = 2

\* an AoS traversal with newton3 over several owned and halo particles returned
C20_Witness ==
  /\ pc = "done"
  /\ useNewton3
  /\ dataLayout = "aos"
  /\ Len(cells[OwnedCell]) >= 3
  /\ Len(cells[HaloCell]) >= 2
  /\ Len(log) > 0

\* a SoA traversal with newton3 returned
C20_WitnessSoA ==
  /\ pc = "done"
  /\ useNewton3
  /\ dataLayout = "soa"
  /\ Len(cells[HaloCell]) >= 2
  /\ Len(log) = 2

(***************************************************************************)
(* VerletLists: neighbor lists over linked cells of edge cutoff + skin.    *)
(***************************************************************************)
\* cutoff radius and skin radius in lattice units
VerletCutoff == 2
VerletSkin == 3

\* VerletLists::VerletLists: cells of edge cutoff + skin, one layer of halo
\* cells around the box
VerletInteractionLength == VerletCutoff + VerletSkin

VerletDims == <<3, 3, 3>>

VerletGeo ==
  MakeGeo(VerletDims,
          <<VerletInteractionLength, VerletInteractionLength, VerletInteractionLength>>,
          VerletInteractionLength)

boxMin == [k \in 1..3 |-> VerletGeo.overlap[k] * VerletInteractionLength]

boxMax == [k \in 1..3 |-> (VerletDims[k] - VerletGeo.overlap[k]) * VerletInteractionLength]

\* utils::inBox
inBox(r) == \A k \in 1..3 : boxMin[k] <= r[k] /\ r[k] < boxMax[k]

\* the base steps of the C08Traversal the container runs over its linked cells
VerletC08Schedule == Evaluated(SequentialSchedule(VerletGeo, "c08"))

VerletC08Ops ==
  Evaluated([k \in 1..Len(VerletC08Schedule) |->
               processBaseCell(VerletGeo, "c08", VerletC08Schedule[k])])

\* the AoSFunctor calls of one C08 traversal over the linked cells cs
C08TraversalCalls(cs, n3) ==
  LET F == [k \in 1..Len(VerletC08Ops) |-> BaseStepCalls(cs, VerletC08Ops[k], FALSE, n3)]
  IN  FlatMap(F, 1, Len(VerletC08Ops) + 1)

\* the particles of the scenario: two molecules and one halo copy
OwnedParticles == {1, 2}
HaloParticles == {3}
VerletParticles == OwnedParticles \cup HaloParticles

\* the linked cells: cell index -> the particles of the set present it holds
LinkedCellsOf(present, ps) ==
  LET ids == SortedSeq(VerletParticles, [p \in VerletParticles |-> p])
  IN  [c \in 0..(NumCells(VerletDims) - 1) |->
         LET InC(p) == p \in present /\ CellIndexOf(ps[p], VerletGeo) = c
         IN  SelectSeq(ids, InC)]

\* the particles in the order the container's iterator visits them
IterationOrder(cs) == FlatMap(cs, 0, Cardinality(DOMAIN cs))

SeqRange(sq) == {sq[k] : k \in DOMAIN sq}

RECURSIVE VerletListGeneratorFunctor(_, _, _, _)
\* the list-building functor applied to the calls cseq[k..]: a pair closer
\* than cutoff + skin appends j to the list of i
VerletListGeneratorFunctor(lists, cseq, k, ps) ==
  IF k > Len(cseq) THEN lists
  ELSE LET c == cseq[k]
           hit == Dist2(ps[c.i], ps[c.j]) < VerletInteractionLength * VerletInteractionLength
           next == IF hit THEN [lists EXCEPT ![c.i] = Append(@, c.j)] ELSE lists
       IN  VerletListGeneratorFunctor(next, cseq, k + 1, ps)

\* VerletLists::updateIdMapAoS: an empty list for every particle
updateIdMapAoS(cs) == [p \in SeqRange(IterationOrder(cs)) |-> <<>>]

\* updateVerletListsAoS building only the lists of particles of inner cells
updateVerletListsAoS_OwnedCellsOnly(cs, ps, n3) ==
  LET all == VerletListGeneratorFunctor(updateIdMapAoS(cs), C08TraversalCalls(cs, n3), 1, ps)
  IN  [p \in DOMAIN all |->
         IF IsHaloCell(CellOf(ps[p], VerletGeo), VerletGeo) THEN <<>> ELSE all[p]]

\* VerletLists::updateVerletListsAoS
updateVerletListsAoS(cs, ps, n3) ==
  VerletListGeneratorFunctor(updateIdMapAoS(cs), C08TraversalCalls(cs, n3), 1, ps)

\* the reference -> row map: rows are assigned in iteration order
aos2soaMapOf(cs) ==
  LET order == IterationOrder(cs)
  IN  [p \in SeqRange(order) |-> CHOOSE i \in DOMAIN order : order[i] = p]

\* VerletLists::generateSoAListFromAoSVerletLists
generateSoAListFromAoSVerletLists(aos, cs) ==
  LET order == IterationOrder(cs)
      m == aos2soaMapOf(cs)
  IN  [i \in 1..Len(order) |-> [j \in 1..Len(aos[order[i]]) |-> m[aos[order[i]][j]]]]

(***************************************************************************)
(* Specification SpecVerlet: a driver adds, moves and deletes particles,   *)
(* updates the container and calls iteratePairwise; the engine rebuilds    *)
(* the neighbor lists when a rebuild is due and runs the Verlet traversal. *)
(***************************************************************************)
MaxSteps == 3
MaxFrequency == 2

\* where the driver places owned particles and halo particles
SiteOf == << <<8, 7, 7>>, <<9, 7, 7>>, <<4, 7, 7>> >>

\* farthest lattice plane a particle drifts to
DriftEnd == boxMax[1] + 1

\* position of a particle that is not in the container
Nowhere == <<0, 0, 0>>

\* the "moved more than skin/2" predicate
isContainerUpdateNeeded ==
  \E p \in (owned \cup halo) \cap DOMAIN buildPos :
    4 * Dist2(pos[p], buildPos[p]) > VerletSkin * VerletSkin

\* the validity-checker functor over a C08 traversal with newton3: every pair
\* within the cutoff is present in the AoS list
neighborlistsAreValid ==
  LET cseq == C08TraversalCalls(cells, TRUE)
  IN  \A k \in DOMAIN cseq :
        Dist2(pos[cseq[k].i], pos[cseq[k].j]) < VerletCutoff * VerletCutoff
          => /\ cseq[k].i \in DOMAIN aosNeighborLists
             /\ cseq[k].j \in DOMAIN aosNeighborLists
             /\ \/ cseq[k].j \in SeqRange(aosNeighborLists[cseq[k].i])
                \/ cseq[k].i \in SeqRange(aosNeighborLists[cseq[k].j])

\* VerletLists::checkNeighborListsAreValid
checkNeighborListsAreValid ==
  IF ~neighborListIsValid THEN FALSE
  ELSE IF isContainerUpdateNeeded THEN FALSE
  ELSE neighborlistsAreValid

\* the rebuild-frequency counter expiring one call late
counterExpired_OneLate == stepsSinceRebuild > rebuildFrequency

\* the rebuild-frequency counter has reached its period
counterExpired == stepsSinceRebuild >= rebuildFrequency

\* a newton3 mode that is never seen to change
newton3Changed_Never(n3) == FALSE

\* the traversal's newton3 mode is not the one the list was built with
newton3Changed(n3) == verletBuiltNewton3 # n3

\* what the engine knows before the traversal is chosen
willRebuild ==
  \/ ~neighborListIsValid
  \/ counterExpired
  \/ isContainerUpdateNeeded

\* the engine's rebuild policy for a traversal with newton3 mode n3
rebuildIsDue(n3) == willRebuild \/ newton3Changed(n3)

RemoveFromCells(cs, p) ==
  [c \in DOMAIN cs |-> LET Keep(q) == q # p IN SelectSeq(cs[c], Keep)]

AddToCell(cs, p, r) ==
  [cs EXCEPT ![CellIndexOf(r, VerletGeo)] = Append(@, p)]

VerletUnused ==
  /\ UNCHANGED <<geo, traversalType, calls, queue>>
  /\ UNCHANGED parVars
  /\ UNCHANGED <<functor, behavior, nDevices, traversal, errors, applicable, cutoff>>
  /\ UNCHANGED ljVars
  /\ UNCHANGED <<rebuildFrequency, outcome>>

VerletInit ==
  /\ pc = "idle"
  /\ geo = VerletDims
  /\ traversalType = "verletTraversal"
  /\ useNewton3 = TRUE
  /\ dataLayout = "aos"
  /\ cells = LinkedCellsOf({}, [p \in VerletParticles |-> Nowhere])
  /\ pos = [p \in VerletParticles |-> Nowhere]
  /\ calls = <<>>
  /\ queue = 0
  /\ numThreads = 1
  /\ colour = 0
  /\ pending = {}
  /\ threads = {}
  /\ locks = <<>>
  /\ force = <<>>
  /\ aosCalls = 0
  /\ SelIdle
  /\ calculateGlobals = FALSE
  /\ LJConstructed
  /\ rebuildFrequency \in {1, MaxFrequency}
  /\ VerletConstructed

\* addParticle: an owned particle inside the box; the lists become invalid
\* (the driver adds the molecules in the order of their ids)
AddParticle(p, r) ==
  /\ pc \in {"idle", "loop"}
  /\ Len(history) < MaxSteps
  /\ p \notin owned \cup halo
  /\ \A q \in OwnedParticles : q < p => q \in owned
  /\ inBox(r)
  /\ owned' = owned \cup {p}
  /\ pos' = [pos EXCEPT ![p] = r]
  /\ cells' = AddToCell(cells, p, r)
  /\ neighborListIsValid' = FALSE
  /\ changedSinceBuild' = TRUE
  /\ quiet' = FALSE
  /\ UNCHANGED <<pc, log, useNewton3, dataLayout, halo, buildPos, aosNeighborLists,
                 soaNeighborLists, soaListIsValid, verletBuiltNewton3, stepsSinceRebuild,
                 history, returned, updated>>
  /\ VerletUnused

\* addOrUpdateHaloParticle: a halo particle outside the box; the lists become
\* invalid
AddHaloParticle(p, r) ==
  /\ pc = "idle"
  /\ Len(history) < MaxSteps
  /\ p \notin owned \cup halo
  /\ ~inBox(r)
  /\ halo' = halo \cup {p}
  /\ pos' = [pos EXCEPT ![p] = r]
  /\ cells' = AddToCell(cells, p, r)
  /\ neighborListIsValid' = FALSE
  /\ changedSinceBuild' = TRUE
  /\ quiet' = FALSE
  /\ UNCHANGED <<pc, log, useNewton3, dataLayout, owned, buildPos, aosNeighborLists,
                 soaNeighborLists, soaListIsValid, verletBuiltNewton3, stepsSinceRebuild,
                 history, returned, updated>>
  /\ VerletUnused

\* deleting a particle through an iterator: the lists are not invalidated
DeleteParticle(p) ==
  /\ pc = "idle"
  /\ 0 < Len(history)
  /\ Len(history) < MaxSteps
  /\ p \in owned
  /\ owned' = owned \ {p}
  /\ pos' = [pos EXCEPT ![p] = Nowhere]
  /\ cells' = RemoveFromCells(cells, p)
  /\ changedSinceBuild' = TRUE
  /\ quiet' = FALSE
  /\ UNCHANGED <<pc, log, useNewton3, dataLayout, halo, buildPos, aosNeighborLists,
                 soaNeighborLists, soaListIsValid, neighborListIsValid, verletBuiltNewton3,
                 stepsSinceRebuild, history, returned, updated>>
  /\ VerletUnused

\* the driver moves an owned particle at the upper face of the box one lattice
\* plane along x
MoveParticle(p) ==
  /\ pc = "idle"
  /\ p \in owned
  /\ boxMax[1] - 1 <= pos[p][1]
  /\ pos[p][1] < DriftEnd
  /\ pos' = [pos EXCEPT ![p] = <<pos[p][1] + 1, pos[p][2], pos[p][3]>>]
  /\ quiet' = FALSE
  /\ returned' = {}
  /\ updated' = FALSE
  /\ UNCHANGED <<pc, log, useNewton3, dataLayout, cells, owned, halo, buildPos,
                 aosNeighborLists, soaNeighborLists, soaListIsValid, neighborListIsValid,
                 verletBuiltNewton3, stepsSinceRebuild, changedSinceBuild, history>>
  /\ VerletUnused

\* updateContainer returning the particles outside the box and keeping them
UpdateContainer_KeepsLeavers ==
  /\ pc = "idle"
  /\ IF willRebuild
     THEN LET leavers == {p \in owned : ~inBox(pos[p])}
              stay == owned
          IN  /\ returned' = {<<p, pos[p]>> : p \in leavers}
              /\ updated' = TRUE
              /\ owned' = stay
              /\ halo' = {}
              /\ pos' = [p \in VerletParticles |-> IF p \in stay THEN pos[p] ELSE Nowhere]
              /\ cells' = LinkedCellsOf(stay, pos)
              /\ neighborListIsValid' = FALSE
              /\ changedSinceBuild' = (changedSinceBuild \/ leavers # {} \/ halo # {})
              /\ quiet' = (quiet /\ leavers = {} /\ halo = {})
     ELSE /\ returned' = {}
          /\ updated' = FALSE
          /\ UNCHANGED <<owned, halo, pos, cells, neighborListIsValid, changedSinceBuild, quiet>>
  /\ pc' = "loop"
  /\ UNCHANGED <<log, useNewton3, dataLayout, buildPos, aosNeighborLists,
                 soaNeighborLists, soaListIsValid, verletBuiltNewton3, stepsSinceRebuild,
                 history>>
  /\ VerletUnused

\* doSimulationLoop, step 1: updateContainer. When a rebuild is due, the halo
\* particles are dropped, the owned particles are sorted into their cells and
\* those outside the box are removed and returned; otherwise nothing is
\* returned and nothing changes
UpdateContainer ==
  /\ pc = "idle"
  /\ IF willRebuild
     THEN LET leavers == {p \in owned : ~inBox(pos[p])}
              stay == owned \ leavers
          IN  /\ returned' = {<<p, pos[p]>> : p \in leavers}
              /\ updated' = TRUE
              /\ owned' = stay
              /\ halo' = {}
              /\ pos' = [p \in VerletParticles |-> IF p \in stay THEN pos[p] ELSE Nowhere]
              /\ cells' = LinkedCellsOf(stay, pos)
              /\ neighborListIsValid' = FALSE
              /\ changedSinceBuild' = (changedSinceBuild \/ leavers # {} \/ halo # {})
              /\ quiet' = (quiet /\ leavers = {} /\ halo = {})
     ELSE /\ returned' = {}
          /\ updated' = FALSE
          /\ UNCHANGED <<owned, halo, pos, cells, neighborListIsValid, changedSinceBuild, quiet>>
  /\ pc' = "loop"
  /\ UNCHANGED <<log, useNewton3, dataLayout, buildPos, aosNeighborLists,
                 soaNeighborLists, soaListIsValid, verletBuiltNewton3, stepsSinceRebuild,
                 history>>
  /\ VerletUnused

\* the engine's iteratePairwise: choose the traversal, decide on the rebuild
IteratePairwiseBegin(layout, n3) ==
  /\ pc \in {"idle", "loop"}
  /\ Len(history) < MaxSteps
  /\ dataLayout' = layout
  /\ useNewton3' = n3
  /\ log' = <<>>
  /\ pc' = IF rebuildIsDue(n3) THEN "rebuildNeighborLists" ELSE "initTraversal"
  /\ history' = Append(history, [rebuilt |-> rebuildIsDue(n3),
                                 quiet |-> quiet, newton3 |-> n3])
  /\ returned' = {}
  /\ updated' = FALSE
  /\ quiet' = TRUE
  /\ UNCHANGED <<cells, pos, owned, halo, buildPos, aosNeighborLists, soaNeighborLists,
                 soaListIsValid, neighborListIsValid, verletBuiltNewton3, stepsSinceRebuild,
                 changedSinceBuild>>
  /\ VerletUnused

\* VerletLists::rebuildNeighborLists(traversal); the engine restarts its counter
RebuildNeighborLists ==
  /\ pc = "rebuildNeighborLists"
  /\ verletBuiltNewton3' = useNewton3
  /\ aosNeighborLists' = updateVerletListsAoS(cells, pos, useNewton3)
  /\ neighborListIsValid' = TRUE
  /\ IF dataLayout = "soa"
     THEN /\ soaNeighborLists' = generateSoAListFromAoSVerletLists(aosNeighborLists', cells)
          /\ soaListIsValid' = TRUE
     ELSE /\ soaListIsValid' = FALSE
          /\ UNCHANGED soaNeighborLists
  /\ buildPos' = [p \in owned \cup halo |-> pos[p]]
  /\ stepsSinceRebuild' = 0
  /\ changedSinceBuild' = FALSE
  /\ log' = Append(log, [fn |-> "rebuildNeighborLists"])
  /\ pc' = "initTraversal"
  /\ UNCHANGED <<cells, pos, owned, halo, useNewton3, dataLayout, quiet, history,
                 returned, updated>>
  /\ VerletUnused

\* the SoALoader / SoAExtractor calls over all cells, with their offsets
SoATransfers(fn) ==
  [c \in 1..NumCells(VerletDims) |->
     [fn |-> fn, cell |-> c - 1, offset |-> Len(FlatMap(cells, 0, c - 1))]]

\* initTraversal that loads nothing
VerletInitTraversal_NoLoad ==
  /\ pc = "initTraversal"
  /\ log' = Append(log, [fn |-> "initTraversal"])
  /\ pc' = "traverseParticlePairs"
  /\ UNCHANGED <<cells, pos, owned, halo, useNewton3, dataLayout, verletVars>>
  /\ VerletUnused

\* VerletLists::iteratePairwise, TraversalVerlet::initTraversal
VerletInitTraversal ==
  /\ pc = "initTraversal"
  /\ log' = Append(log, [fn |-> "initTraversal"])
            \o (IF dataLayout = "soa" THEN SoATransfers("SoALoader") ELSE <<>>)
  /\ pc' = "traverseParticlePairs"
  /\ UNCHANGED <<cells, pos, owned, halo, useNewton3, dataLayout, verletVars>>
  /\ VerletUnused

\* the AoSFunctor calls over the AoS lists, list by list
AoSListCalls(lists, n3) ==
  LET keys == SortedSeq(DOMAIN lists, [p \in DOMAIN lists |-> p])
      F == [a \in 1..Len(keys) |->
              [b \in 1..Len(lists[keys[a]]) |-> AoSCall(keys[a], lists[keys[a]][b], n3)]]
  IN  FlatMap(F, 1, Len(keys) + 1)

\* TraversalVerlet::traverseParticlePairs
VerletTraverseParticlePairs ==
  /\ pc = "traverseParticlePairs"
  /\ log' = Append(log, [fn |-> "traverseParticlePairs"])
            \o (IF dataLayout = "soa"
                THEN <<[fn |-> "SoAFunctor", neighborList |-> soaNeighborLists,
                        soa |-> IterationOrder(cells),
                        iFrom |-> 0, iTo |-> Len(soaNeighborLists),
                        newton3 |-> useNewton3,
                        builtNewton3 |-> verletBuiltNewton3,
                        changedSinceBuild |-> changedSinceBuild]>>
                ELSE [k \in 1..Len(AoSListCalls(aosNeighborLists, useNewton3)) |->
                        [fn |-> "AoSFunctor",
                         i |-> AoSListCalls(aosNeighborLists, useNewton3)[k].i,
                         j |-> AoSListCalls(aosNeighborLists, useNewton3)[k].j,
                         newton3 |-> useNewton3,
                         builtNewton3 |-> verletBuiltNewton3,
                         changedSinceBuild |-> changedSinceBuild]])
  /\ pc' = "endTraversal"
  /\ UNCHANGED <<cells, pos, owned, halo, useNewton3, dataLayout, verletVars>>
  /\ VerletUnused

\* TraversalVerlet::endTraversal; iteratePairwise returns
VerletEndTraversal ==
  /\ pc = "endTraversal"
  /\ log' = Append(log, [fn |-> "endTraversal"])
            \o (IF dataLayout = "soa" THEN SoATransfers("SoAExtractor") ELSE <<>>)
  /\ stepsSinceRebuild' = stepsSinceRebuild + 1
  /\ pc' = "idle"
  /\ UNCHANGED <<cells, pos, owned, halo, useNewton3, dataLayout, buildPos, aosNeighborLists,
                 soaNeighborLists, soaListIsValid, neighborListIsValid, verletBuiltNewton3,
                 changedSinceBuild, quiet, history, returned, updated>>
  /\ VerletUnused

\* one call of the engine's iteratePairwise, phase by phase
IteratePairwisePhases ==
  \/ RebuildNeighborLists
  \/ VerletInitTraversal
  \/ VerletTraverseParticlePairs
  \/ VerletEndTraversal

VerletNext ==
  \/ \E p \in OwnedParticles : AddParticle(p, SiteOf[p])
  \/ \E p \in HaloParticles : AddHaloParticle(p, SiteOf[p])
  \/ \E p \in OwnedParticles : DeleteParticle(p)
  \/ \E layout \in {"aos", "soa"} : \E n3 \in BOOLEAN : IteratePairwiseBegin(layout, n3)
  \/ IteratePairwisePhases

SpecVerlet == VerletInit /\ [][VerletNext]_vars

\* the simulation loop: between two loops the particles drift; a loop updates
\* the container, adds the entering particles and computes the interactions
UpdateNext ==
  \/ \E p \in OwnedParticles : AddParticle(p, SiteOf[p])
  \/ \E p \in OwnedParticles : MoveParticle(p)
  \/ UpdateContainer
  \/ \E n3 \in BOOLEAN : pc = "loop" /\ IteratePairwiseBegin("aos", n3)
  \/ IteratePairwisePhases

SpecUpdate == VerletInit /\ [][UpdateNext]_vars

(***************************************************************************)
(* Claims on SpecVerlet.                                                   *)
(***************************************************************************)
\* between call i and call j no particle was added, removed or moved and the
\* traversals kept their newton3 mode
QuietBetween(i, j) ==
  \A m \in (i + 1)..j :
    /\ history[m].quiet
    /\ history[m].newton3 = history[m - 1].newton3

FunctorCalls == {k \in DOMAIN log : log[k].fn \in {"AoSFunctor", "SoAFunctor"}}

\* C13: after addParticle, addOrUpdateHaloParticle or the deletion of a
\* particle checkNeighborListsAreValid returns false, and no list built before
\* the change is traversed after it.
C13_ChangeInvalidates ==
  /\ (pc = "idle" /\ changedSinceBuild) => ~checkNeighborListsAreValid
  /\ \A k \in FunctorCalls : ~log[k].changedSinceBuild

C16_SoAListInSync ==
  \A k \in DOMAIN log :
    log[k].fn = "SoAFunctor" =>
      LET order == log[k].soa
          soaList == log[k].neighborList
      IN  /\ Len(soaList) = Len(order)
          /\ \A i \in DOMAIN order :
               /\ order[i] \in DOMAIN aosNeighborLists
               /\ i \in DOMAIN soaList
               /\ Len(soaList[i]) = Len(aosNeighborLists[order[i]])
               /\ \A j \in DOMAIN soaList[i] :
                    /\ soaList[i][j] \in DOMAIN order
                    /\ order[soaList[i][j]] = aosNeighborLists[order[i]][j]

IndexOf(fn) == {k \in DOMAIN log : log[k].fn = fn}

\* the place of an event in the order of the phases
PhaseRank(fn) ==
  IF fn = "rebuildNeighborLists" THEN 0
  ELSE IF fn = "initTraversal" THEN 1
  ELSE IF fn = "SoALoader" THEN 2
  ELSE IF fn = "traverseParticlePairs" THEN 3
  ELSE IF fn \in {"AoSFunctor", "SoAFunctor"} THEN 4
  ELSE IF fn = "endTraversal" THEN 5
  ELSE 6

\* the events of one iteratePairwise call are in the order of its phases
PhasesInOrder ==
  /\ Cardinality(IndexOf("initTraversal")) <= 1
  /\ Cardinality(IndexOf("traverseParticlePairs")) <= 1
  /\ Cardinality(IndexOf("endTraversal")) <= 1
  /\ \A k \in 1..(Len(log) - 1) : PhaseRank(log[k].fn) <= PhaseRank(log[k + 1].fn)
  /\ \A k \in DOMAIN log : PhaseRank(log[k].fn) = 6 => log[k].fn = "SoAExtractor"
  /\ FunctorCalls # {} =>
       /\ IndexOf("initTraversal") # {}
       /\ dataLayout = "soa" => Cardinality(IndexOf("SoALoader")) = NumCells(VerletDims)

\* every phase of the call that returned has run
PhasesComplete ==
  /\ Cardinality(IndexOf("initTraversal")) = 1
  /\ Cardinality(IndexOf("traverseParticlePairs")) = 1
  /\ Cardinality(IndexOf("endTraversal")) = 1
  /\ IF dataLayout = "soa"
     THEN /\ Cardinality(IndexOf("SoALoader")) = NumCells(VerletDims)
          /\ Cardinality(IndexOf("SoAExtractor")) = NumCells(VerletDims)
          /\ Cardinality(FunctorCalls) = 1
     ELSE /\ IndexOf("SoALoader") = {}
          /\ IndexOf("SoAExtractor") = {}

OwnedInsideBox == \A p \in owned : inBox(pos[p])

\* an iteratePairwise call has returned and no position has changed since it
\* was called
CallReturned == pc = "idle" /\ quiet /\ history # <<>>

BuildReach == 3

\* where the first particle lies: centre and corners of the box, halo cells
BuildSites == {<<7, 7, 7>>, <<9, 9, 9>>, <<5, 5, 5>>, <<11, 7, 7>>, <<11, 11, 11>>, <<3, 7, 7>>}

\* the second particle relative to the first: the lattice directions, scaled
BuildDeltas ==
  {<<m * d[1], m * d[2], m * d[3]>> :
     d \in ((0 - 1 .. 1) \X (0 - 1 .. 1) \X (0 - 1 .. 1)) \ {<<0, 0, 0>>}, m \in 1..BuildReach}

\* how far a particle is displaced between two traversals
Displacements == {<<1, 0, 0>>, <<0 - 1, 0, 0>>, <<1, 1, 0>>, <<0 - 1, 0 - 1, 0>>, <<2, 0, 0>>}

InGrid(r) == \A k \in 1..3 : 0 <= r[k] /\ r[k] < VerletDims[k] * VerletInteractionLength

BuildInit ==
  /\ pc = "rebuildNeighborLists"
  /\ geo = VerletDims
  /\ traversalType = "verletTraversal"
  /\ useNewton3 \in BOOLEAN
  /\ dataLayout = "aos"
  /\ \E a \in BuildSites : \E d \in BuildDeltas :
       LET b == <<a[1] + d[1], a[2] + d[2], a[3] + d[3]>>
       IN  /\ \A e \in Displacements : InGrid(<<b[1] + e[1], b[2] + e[2], b[3] + e[3]>>)
           /\ pos = [p \in VerletParticles |->
                       IF p = 1 THEN a ELSE IF p = 2 THEN b ELSE Nowhere]
  /\ cells = LinkedCellsOf(OwnedParticles, pos)
  /\ calls = <<>>
  /\ queue = 0
  /\ numThreads = 1
  /\ colour = 0
  /\ pending = {}
  /\ threads = {}
  /\ locks = <<>>
  /\ force = <<>>
  /\ aosCalls = 0
  /\ SelIdle
  /\ calculateGlobals = FALSE
  /\ LJConstructed
  /\ rebuildFrequency = 1
  /\ owned = OwnedParticles
  /\ halo = {}
  /\ buildPos = <<>>
  /\ aosNeighborLists = <<>>
  /\ soaNeighborLists = <<>>
  /\ soaListIsValid = FALSE
  /\ neighborListIsValid = FALSE
  /\ verletBuiltNewton3 = FALSE
  /\ stepsSinceRebuild = 0
  /\ changedSinceBuild = FALSE
  /\ quiet = TRUE
  /\ history = <<>>
  /\ returned = {}
  /\ updated = FALSE
  /\ outcome = <<>>

\* the driver displaces a particle that has not moved since the build
ShiftParticle(p, e) ==
  /\ pc = "idle"
  /\ history = <<>>
  /\ p \in owned
  /\ pos[p] = buildPos[p]
  /\ pos' = [pos EXCEPT ![p] = <<pos[p][1] + e[1], pos[p][2] + e[2], pos[p][3] + e[3]>>]
  /\ quiet' = FALSE
  /\ UNCHANGED <<pc, log, useNewton3, dataLayout, cells, owned, halo, buildPos,
                 aosNeighborLists, soaNeighborLists, soaListIsValid, neighborListIsValid,
                 verletBuiltNewton3, stepsSinceRebuild, changedSinceBuild, history,
                 returned, updated>>
  /\ VerletUnused

\* VerletLists::iteratePairwise on the lists as they are
IterateWithoutRebuild ==
  /\ pc = "idle"
  /\ history = <<>>
  /\ log' = <<>>
  /\ pc' = "initTraversal"
  /\ history' = Append(history, [rebuilt |-> FALSE, quiet |-> quiet, newton3 |-> useNewton3])
  /\ UNCHANGED <<cells, pos, owned, halo, useNewton3, dataLayout, buildPos, aosNeighborLists,
                 soaNeighborLists, soaListIsValid, neighborListIsValid, verletBuiltNewton3,
                 stepsSinceRebuild, changedSinceBuild, quiet, returned, updated>>
  /\ VerletUnused

BuildNext ==
  \/ IteratePairwisePhases
  \/ \E p \in OwnedParticles : \E e \in Displacements : ShiftParticle(p, e)
  \/ IterateWithoutRebuild

SpecBuild == BuildInit /\ [][BuildNext]_vars

\* the pair is in the lists the way a traversal in the lists' newton3 mode
\* needs it
Represented(i, j) ==
  IF verletBuiltNewton3
  THEN j \in SeqRange(aosNeighborLists[i]) \/ i \in SeqRange(aosNeighborLists[j])
  ELSE j \in SeqRange(aosNeighborLists[i]) /\ i \in SeqRange(aosNeighborLists[j])

Traversing == pc \in {"traverseParticlePairs", "endTraversal"}

MovedLessThanHalfSkin ==
  \A p \in owned : 4 * Dist2(pos[p], buildPos[p]) < VerletSkin * VerletSkin

InOwnedCellAtBuild(p) == ~IsHaloCell(CellOf(buildPos[p], VerletGeo), VerletGeo)

NumLoops == 3

SimDims == <<5, 5, 5>>

\* cells of edge cutoff + skin, one layer of halo cells around the box
SimGeo ==
  MakeGeo(SimDims,
          <<VerletInteractionLength, VerletInteractionLength, VerletInteractionLength>>,
          VerletInteractionLength)

simBoxMin == [k \in 1..3 |-> SimGeo.overlap[k] * VerletInteractionLength]

simBoxMax == [k \in 1..3 |-> (SimDims[k] - SimGeo.overlap[k]) * VerletInteractionLength]

inSimBox(r) == \A k \in 1..3 : simBoxMin[k] <= r[k] /\ r[k] < simBoxMax[k]

\* the two molecules and the halo copy of each
Molecules == {1, 2}
CopyOf(p) == p + 2
SimParticles == Molecules \cup {CopyOf(p) : p \in Molecules}

\* moveVec: skin / 3 along x
moveVec == <<VerletSkin \div 3, 0, 0>>

\* where the two molecules start
StartPositions ==
  { <<p1, p2>> \in
      {<<19, 12, 12>>, <<18, 12, 12>>, <<12, 12, 12>>} \X
      {<<19, 13, 12>>, <<18, 13, 12>>, <<19, 13, 13>>, <<18, 14, 12>>, <<12, 13, 12>>,
       <<13, 12, 13>>, <<5, 12, 12>>, <<6, 13, 12>>, <<5, 14, 14>>} : TRUE }

\* convertToEnteringParticles: the periodic wrap of a position
convertToEnteringParticles(r) ==
  [k \in 1..3 |->
     IF r[k] < simBoxMin[k]
     THEN MinOf(simBoxMax[k] - 1, r[k] + (simBoxMax[k] - simBoxMin[k]))
     ELSE IF r[k] >= simBoxMax[k]
     THEN MaxOf(simBoxMin[k], r[k] - (simBoxMax[k] - simBoxMin[k]))
     ELSE r[k]]

\* identifyAndSendHaloParticles: the search region of a direction
HaloRegionMin(direction) ==
  [k \in 1..3 |->
     IF direction[k] = 1 THEN simBoxMax[k] - VerletCutoff - VerletSkin
     ELSE simBoxMin[k] - VerletSkin]

HaloRegionMax(direction) ==
  [k \in 1..3 |->
     IF direction[k] = 0 - 1 THEN simBoxMin[k] + VerletCutoff + VerletSkin
     ELSE simBoxMax[k] + VerletSkin]

shiftVec(direction) ==
  [k \in 1..3 |-> 0 - (simBoxMax[k] - simBoxMin[k]) * direction[k]]

Directions == ((0 - 1 .. 1) \X (0 - 1 .. 1) \X (0 - 1 .. 1)) \ {<<0, 0, 0>>}

\* the directions in which a molecule at r is sent as a halo copy
SendDirections(r) ==
  {d \in Directions :
     \A k \in 1..3 : HaloRegionMin(d)[k] <= r[k] /\ r[k] <= HaloRegionMax(d)[k]}

\* identifyAndSendHaloParticles for the molecules at ps: the copies to add
identifyAndSendHaloParticles(ps) ==
  {CopyOf(p) : p \in {q \in Molecules : SendDirections(ps[q]) # {}}}

\* ... and where they are: the molecule's position shifted over the box
HaloPositions(ps) ==
  [p \in SimParticles |->
     IF p \in Molecules THEN ps[p]
     ELSE LET q == CHOOSE m \in Molecules : CopyOf(m) = p
              D == SendDirections(ps[q])
          IN  IF D = {} THEN Nowhere
              ELSE LET d == CHOOSE e \in D : TRUE
                   IN  [k \in 1..3 |-> ps[q][k] + shiftVec(d)[k]]]

\* the cells of a container over the grid: cell index -> particles, by id
SimCellsOf(present, ps) ==
  LET ids == SortedSeq(present, [p \in present |-> p])
  IN  [c \in 0..(NumCells(SimDims) - 1) |->
         LET InC(p) == CellIndexOf(ps[p], SimGeo) = c
         IN  SelectSeq(ids, InC)]

SimSchedule == Evaluated([t \in LCTraversals |-> SequentialSchedule(SimGeo, t)])

SimOps ==
  Evaluated([t \in LCTraversals |->
     [k \in 1..Len(SimSchedule[t]) |-> processBaseCell(SimGeo, t, SimSchedule[t][k])]])

\* the functor calls of linked-cells traversal t over the cells cs
LinkedCellsTraversalCalls(t, cs, useSoA, n3) ==
  LET F == [k \in 1..Len(SimOps[t]) |-> BaseStepCalls(cs, SimOps[t][k], useSoA, n3)]
  IN  FlatMap(F, 1, Len(SimOps[t]) + 1)

\* DirectSumTraversal over the owned and the halo cell
DirectSumTraversalCalls(ownedCell, haloCell, useSoA, n3) ==
  processCell(ownedCell, useSoA, n3) \o processCellPair(ownedCell, haloCell, useSoA, n3)

\* VerletLists::updateVerletListsAoS over the container's linked cells
SimVerletLists(cs, ps, n3) ==
  VerletListGeneratorFunctor(updateIdMapAoS(cs),
                             LinkedCellsTraversalCalls("c08", cs, FALSE, n3), 1, ps)

\* the pairs the SoAFunctor over the SoA neighbor lists is applied to
SoAListPairs(soaLists, order) ==
  LET F == [i \in 1..Len(soaLists) |->
              [j \in 1..Len(soaLists[i]) |-> <<order[i], order[soaLists[i][j]]>>]]
  IN  FlatMap(F, 1, Len(soaLists) + 1)

\* the combinations of container, traversal, data layout and newton3 mode
ContainerTraversals ==
  << <<"linkedCells", "c08">>, <<"linkedCells", "c18">>, <<"linkedCells", "sliced">>,
     <<"verletLists", "verletTraversal">>, <<"directSum", "directSumTraversal">> >>

NumCombinations == 4 * Len(ContainerTraversals)

Combinations ==
  [k \in 1..NumCombinations |->
     [container |-> ContainerTraversals[((k - 1) \div 4) + 1][1],
      traversal |-> ContainerTraversals[((k - 1) \div 4) + 1][2],
      dataLayout |-> IF ((k - 1) \div 2) % 2 = 0 THEN "aos" ELSE "soa",
      newton3 |-> (k - 1) % 2 = 0]]

\* the ordered particle pairs combination c applies the functor to; cs and
\* bp are the cells and the positions at the container's last rebuild
PairsHandedBy(c, cs, bp) ==
  IF c.container = "linkedCells"
  THEN AllHandedPairs(LinkedCellsTraversalCalls(c.traversal, cs, c.dataLayout = "soa", c.newton3))
  ELSE IF c.container = "directSum"
  THEN LET present == SeqRange(IterationOrder(cs))
           own == SortedSeq(present \cap Molecules, [p \in present \cap Molecules |-> p])
           hal == SortedSeq(present \ Molecules, [p \in present \ Molecules |-> p])
       IN  AllHandedPairs(DirectSumTraversalCalls(own, hal, c.dataLayout = "soa", c.newton3))
  ELSE LET lists == SimVerletLists(cs, bp, c.newton3)
       IN  IF c.dataLayout = "aos"
           THEN AllHandedPairs(AoSListCalls(lists, c.newton3))
           ELSE SoAListPairs(generateSoAListFromAoSVerletLists(lists, cs), IterationOrder(cs))

\* the pair functor: the force on i, the potential and the virial of a pair
PairForce(ps, i, j) == [k \in 1..3 |-> ps[i][k] - ps[j][k]]

PairUpot(ps, i, j) == 12 * (VerletCutoff * VerletCutoff + 1 - Dist2(ps[i], ps[j]))

PairVirial(ps, i, j) == [k \in 1..3 |-> 12 * (ps[i][k] - ps[j][k]) * (ps[i][k] - ps[j][k])]

ZeroValues == [force |-> [p \in SimParticles |-> <<0, 0, 0>>], upot |-> 0, virial |-> <<0, 0, 0>>]

RECURSIVE ApplyFunctor(_, _, _, _, _)
\* the functor applied to the pairs prs[k..] with positions ps: beyond the
\* cutoff nothing; the force on i and, with newton3, on j; the potential and
\* the virial are counted for the owned particles of the pair, half each
\* with newton3
ApplyFunctor(acc, prs, k, n3, ps) ==
  IF k > Len(prs) THEN acc
  ELSE LET i == prs[k][1]
           j == prs[k][2]
           f == PairForce(ps, i, j)
           u == IF n3 THEN PairUpot(ps, i, j) \div 2 ELSE PairUpot(ps, i, j)
           v == IF n3 THEN [m \in 1..3 |-> PairVirial(ps, i, j)[m] \div 2]
                ELSE PairVirial(ps, i, j)
           times == (IF i \in Molecules THEN 1 ELSE 0) +
                    (IF n3 /\ j \in Molecules THEN 1 ELSE 0)
           next ==
             IF Dist2(ps[i], ps[j]) > VerletCutoff * VerletCutoff THEN acc
             ELSE [force |->
                     [p \in SimParticles |->
                        IF p = i THEN [m \in 1..3 |-> acc.force[p][m] + f[m]]
                        ELSE IF p = j /\ n3 THEN [m \in 1..3 |-> acc.force[p][m] - f[m]]
                        ELSE acc.force[p]],
                   upot |-> acc.upot + times * u,
                   virial |-> [m \in 1..3 |-> acc.virial[m] + times * v[m]]]
       IN  ApplyFunctor(next, prs, k + 1, n3, ps)

\* postProcessGlobalValues without the halving in the mode without newton3
GlobalsAfterPostProcess_NoHalving(acc, newton3) ==
  [force |-> acc.force,
   upot |-> acc.upot \div 6,
   virial |-> acc.virial[1] + acc.virial[2] + acc.virial[3]]

\* postProcessGlobalValues(newton3), then getUpot and getVirial
GlobalsAfterPostProcess(acc, newton3) ==
  LET u == IF newton3 THEN acc.upot ELSE acc.upot \div 2
      v == IF newton3 THEN acc.virial ELSE [m \in 1..3 |-> acc.virial[m] \div 2]
  IN  [force |-> acc.force,
       upot |-> u \div 6,
       virial |-> v[1] + v[2] + v[3]]

\* one iteratePairwise of combination c: forces and global values
RunCombination(c, cs, bp, ps) ==
  GlobalsAfterPostProcess(ApplyFunctor(ZeroValues, PairsHandedBy(c, cs, bp), 1, c.newton3, ps),
                          c.newton3)

EquivFrame ==
  /\ UNCHANGED <<pc, geo, traversalType, useNewton3, dataLayout, calls, queue, log>>
  /\ UNCHANGED parVars
  /\ UNCHANGED <<functor, behavior, nDevices, traversal, errors, applicable, cutoff>>
  /\ UNCHANGED ljVars
  /\ UNCHANGED <<aosNeighborLists, soaNeighborLists, soaListIsValid, neighborListIsValid,
                 verletBuiltNewton3, rebuildFrequency, changedSinceBuild, quiet, returned,
                 updated>>

\* testSimulationLoop up to the first iteratePairwise: the molecules are
\* added, the container is built, the halo copies are sent
EquivInit ==
  /\ pc = "loop"
  /\ geo = SimDims
  /\ traversalType = "c08"
  /\ useNewton3 = TRUE
  /\ dataLayout = "aos"
  /\ \E start \in StartPositions :
       LET ps == HaloPositions([p \in Molecules |-> start[p]])
           present == Molecules \cup identifyAndSendHaloParticles(ps)
       IN  /\ pos = ps
           /\ buildPos = ps
           /\ owned = Molecules
           /\ halo = present \ Molecules
           /\ cells = SimCellsOf(present, ps)
  /\ calls = <<>>
  /\ queue = 0
  /\ numThreads = 1
  /\ colour = 0
  /\ pending = {}
  /\ threads = {}
  /\ locks = <<>>
  /\ force = <<>>
  /\ aosCalls = 0
  /\ SelIdle
  /\ calculateGlobals = TRUE
  /\ LJConstructed
  /\ rebuildFrequency = 2
  /\ aosNeighborLists = <<>>
  /\ soaNeighborLists = <<>>
  /\ soaListIsValid = FALSE
  /\ neighborListIsValid = FALSE
  /\ verletBuiltNewton3 = FALSE
  /\ stepsSinceRebuild = 0
  /\ changedSinceBuild = FALSE
  /\ quiet = TRUE
  /\ history = <<>>
  /\ returned = {}
  /\ updated = FALSE
  /\ outcome = <<>>

\* iteratePairwise of the next combination on the particles of this loop; the
\* loop is over, and counted, when the last combination has run
EquivIteratePairwise ==
  /\ Len(history) < NumLoops
  /\ Len(outcome) < NumCombinations
  /\ outcome' = Append(outcome,
                       RunCombination(Combinations[Len(outcome) + 1], cells, buildPos, pos))
  /\ stepsSinceRebuild' = IF Len(outcome) + 1 = NumCombinations
                          THEN stepsSinceRebuild + 1 ELSE stepsSinceRebuild
  /\ UNCHANGED <<cells, pos, owned, halo, buildPos, history>>
  /\ EquivFrame

\* doSimulationLoop up to iteratePairwise, from the molecule positions ps:
\* updateContainer (with a rebuild when the counter has expired: leavers are
\* handed to the driver and re-enter wrapped), then the halo copies
BeginSimulationLoop(ps) ==
  IF counterExpired
  THEN LET entered == [p \in Molecules |-> convertToEnteringParticles(ps[p])]
           all == HaloPositions(entered)
           present == Molecules \cup identifyAndSendHaloParticles(all)
       IN  /\ pos' = all
           /\ halo' = present \ Molecules
           /\ cells' = SimCellsOf(present, all)
           /\ buildPos' = all
           /\ stepsSinceRebuild' = 0
  ELSE /\ pos' = HaloPositions(ps)
       /\ UNCHANGED <<halo, cells, buildPos, stepsSinceRebuild>>

\* between the first and the second loop: the molecules move by moveVec
MoveMolecules ==
  /\ Len(history) = 0
  /\ Len(outcome) = NumCombinations
  /\ history' = Append(history, outcome)
  /\ outcome' = <<>>
  /\ BeginSimulationLoop([p \in Molecules |-> [k \in 1..3 |-> pos[p][k] + moveVec[k]]])
  /\ UNCHANGED owned
  /\ EquivFrame

\* between the second and the third loop: only the forces are reset
ResetForces ==
  /\ Len(history) = 1
  /\ Len(outcome) = NumCombinations
  /\ history' = Append(history, outcome)
  /\ outcome' = <<>>
  /\ BeginSimulationLoop([p \in Molecules |-> pos[p]])
  /\ UNCHANGED owned
  /\ EquivFrame

EquivNext == EquivIteratePairwise \/ MoveMolecules \/ ResetForces

SpecEquiv == EquivInit /\ [][EquivNext]_vars

SameOnMolecules(x, y) ==
  /\ x.upot = y.upot
  /\ x.virial = y.virial
  /\ \A p \in Molecules : x.force[p] = y.force[p]

\* the values of every iteratePairwise so far, loop after loop
ValuesSoFar == FlatMap(history, 1, Len(history) + 1) \o outcome

MaxCellSize == 4

\* two cells: the particles 1..n in the first, n+1..n+m in the second
CellInit ==
  /\ pc = "call"
  /\ geo = <<1, 1, 1>>
  /\ traversalType = "none"
  /\ useNewton3 \in BOOLEAN
  /\ dataLayout \in {"aos", "soa"}
  /\ \E n \in 0..MaxCellSize : \E m \in 0..MaxCellSize :
       cells = <<[k \in 1..n |-> k], [k \in 1..m |-> n + k]>>
  /\ pos = <<>>
  /\ calls = <<>>
  /\ queue = 0
  /\ numThreads = 1
  /\ colour = 0
  /\ pending = {}
  /\ threads = {}
  /\ locks = <<>>
  /\ force = <<>>
  /\ aosCalls = 0
  /\ SelIdle
  /\ EngineIdle

\* CellFunctor::processCell(cell)
CellFunctorProcessCell ==
  /\ pc = "call"
  /\ log' = processCell(cells[1], dataLayout = "soa", useNewton3)
  /\ pc' = "processCell"
  /\ DSFrame

\* CellFunctor::processCellPair(cell1, cell2)
CellFunctorProcessCellPair ==
  /\ pc = "call"
  /\ log' = processCellPair(cells[1], cells[2], dataLayout = "soa", useNewton3)
  /\ pc' = "processCellPair"
  /\ DSFrame

CellNext == CellFunctorProcessCell \/ CellFunctorProcessCellPair

SpecCell == CellInit /\ [][CellNext]_vars

\* number of calls AoSFunctor(p, q, n3) made
AoSCallsWith(p, q, n3) == Occurrences(log, AoSCall(p, q, n3))

\* every call made is an AoSFunctor call with newton3 argument n3
OnlyAoSCalls(n3) == \A k \in DOMAIN log : log[k].fn = "AoS" /\ log[k].newton3 = n3

\* C21: processCell in AoS layout with newton3 on a cell of n particles makes
\* n(n-1)/2 calls, one AoSFunctor(p_i, p_j, true) for each i < j and none for
\* i = j or i > j.
C21_ProcessCellN3 ==
  (pc = "processCell" /\ dataLayout = "aos" /\ useNewton3) =>
    LET cell == cells[1]
        n == Len(cell)
    IN  /\ Len(log) = (n * (n - 1)) \div 2
        /\ OnlyAoSCalls(TRUE)
        /\ \A i \in 1..n : \A j \in 1..n :
             AoSCallsWith(cell[i], cell[j], TRUE) = (IF i < j THEN 1 ELSE 0)

C21_Witness ==
  /\ pc = "processCell"
  /\ dataLayout = "aos"
  /\ useNewton3
  /\ Len(cells[1]) = MaxCellSize
  /\ Len(log) > 2

\* C22: processCell in AoS layout without newton3 on a cell of n particles
\* makes n(n-1) calls, one AoSFunctor(p_i, p_j, false) for every i # j and
\* none for i = j, for every n from 0 on.
C22_ProcessCellNoN3 ==
  (pc = "processCell" /\ dataLayout = "aos" /\ ~useNewton3) =>
    LET cell == cells[1]
        n == Len(cell)
    IN  /\ Len(log) = n * (n - 1)
        /\ OnlyAoSCalls(FALSE)
        /\ \A i \in 1..n : \A j \in 1..n :
             AoSCallsWith(cell[i], cell[j], FALSE) = (IF i # j THEN 1 ELSE 0)

C22_Witness ==
  /\ pc = "processCell"
  /\ dataLayout = "aos"
  /\ ~useNewton3
  /\ Len(cells[1]) = MaxCellSize
  /\ AoSCallsWith(cells[1][1], cells[1][MaxCellSize], FALSE) = 1
  /\ AoSCallsWith(cells[1][MaxCellSize], cells[1][1], FALSE) = 1

\* C23: processCellPair in AoS layout calls the functor for every pair of a
\* particle of cell1 and a particle of cell2 and for nothing else: with
\* newton3 once as (p_i, p_j, true), without newton3 once as (p_i, p_j, false)
\* and once as (p_j, p_i, false).
C23_ProcessCellPair ==
  (pc = "processCellPair" /\ dataLayout = "aos") =>
    LET n == Len(cells[1])
        m == Len(cells[2])
    IN  /\ Len(log) = (IF useNewton3 THEN n * m ELSE 2 * n * m)
        /\ OnlyAoSCalls(useNewton3)
        /\ \A i \in 1..n : \A j \in 1..m :
             /\ AoSCallsWith(cells[1][i], cells[2][j], useNewton3) = 1
             /\ AoSCallsWith(cells[2][j], cells[1][i], useNewton3) =
                  (IF useNewton3 THEN 0 ELSE 1)
        /\ \A c \in 1..2 : \A i, j \in DOMAIN cells[c] :
             AoSCallsWith(cells[c][i], cells[c][j], useNewton3) = 0

C23_Witness ==
  /\ pc = "processCellPair"
  /\ dataLayout = "aos"
  /\ ~useNewton3
  /\ Len(cells[1]) > 1
  /\ Len(cells[2]) > 1
  /\ Len(log) = 2 * Len(cells[1]) * Len(cells[2])

(***************************************************************************)
(* Specification SpecOffsets: the c08 and the c18 base step on grids of up *)
(* to MaxGridDim cells per axis, for overlap 1 and overlap 2.              *)
(***************************************************************************)
MaxGridDim == 5

\* <<cellLength, interactionLength>>: overlap 1; overlap 2 with every offset
\* in reach; overlap 2 with the corners of the overlap out of reach
OffsetGeometries == {<<1, 1>>, <<1, 2>>, <<2, 3>>}

OffsetGrids == (1..MaxGridDim) \X (1..MaxGridDim) \X (1..MaxGridDim)

\* the loop variables <<x, y, z>> of the entries C18offsetsFor pushes, in the
\* same order
C18directionsFor(g, yArray, xArray) ==
  LET ov == g.overlap
      wx == 2 * ov[1] + 1
      wy == 2 * ov[2] + 1
      ilSq == g.interactionLength * g.interactionLength
      F == [k \in 0..((ov[3] + 1) * wy * wx - 1) |->
              LET z == k \div (wy * wx)
                  y == ((k \div wx) % wy) - ov[2]
                  x == (k % wx) - ov[1]
                  offset == threeToOneD(x, y, z, g.dims)
              IN  IF offset < 0 THEN <<>>
                  ELSE IF Abs(yArray + y) <= ov[2] /\ Abs(xArray + x) <= ov[1] /\
                          DistSquare(<<Max0(Abs(x) - 1), Max0(Abs(y) - 1), Max0(Abs(z) - 1)>>,
                                     g.cellLength) <= ilSq
                       THEN << <<x, y, z>> >> ELSE <<>>]
  IN  FlatMap(F, 0, (ov[3] + 1) * wy * wx)

\* the traversals are constructed; the constructors have run computeOffsets
OffsetsInit ==
  /\ pc = "constructed"
  /\ \E d \in OffsetGrids : \E s \in OffsetGeometries :
       geo = MakeGeo(d, <<s[1], s[1], s[1]>>, s[2])
  /\ traversalType = "none"
  /\ useNewton3 = TRUE
  /\ dataLayout = "aos"
  /\ cells = <<>>
  /\ pos = <<>>
  /\ calls = <<>>
  /\ queue = 0
  /\ numThreads = 1
  /\ colour = 0
  /\ pending = {}
  /\ threads = {}
  /\ locks = <<>>
  /\ force = <<>>
  /\ aosCalls = 0
  /\ log = <<>>
  /\ SelIdle
  /\ EngineIdle

OffsetsFrame ==
  UNCHANGED <<geo, useNewton3, dataLayout, cells, queue, numThreads, colour, pending,
              threads, locks, force, aosCalls, log, selVars, engineVars>>

\* C08CellHandler::processBaseCell at a base cell below the far walls
C08ProcessBaseCell ==
  /\ pc = "constructed"
  /\ \E c \in BaseCells(geo, "c08") :
       /\ pos' = c
       /\ calls' = C08processBaseCell(geo, threeToOneD(c[1], c[2], c[3], geo.dims))
  /\ traversalType' = "c08"
  /\ pc' = "processBaseCell"
  /\ OffsetsFrame

\* C18Traversal::processBaseCell at a base cell with z < nz - overlap
C18ProcessBaseCell ==
  /\ pc = "constructed"
  /\ \E c \in BaseCells(geo, "c18") :
       /\ pos' = c
       /\ calls' = C18processBaseCell(geo, c[1], c[2], c[3])
  /\ traversalType' = "c18"
  /\ pc' = "processBaseCell"
  /\ OffsetsFrame

OffsetsNext == C08ProcessBaseCell \/ C18ProcessBaseCell

SpecOffsets == OffsetsInit /\ [][OffsetsNext]_vars

\* difference of the cell coordinates of a scheduled pair of cell indices
CellDifference(op, d) ==
  LET a == oneToThreeD(op[1], d)
      b == oneToThreeD(op[2], d)
  IN  <<b[1] - a[1], b[2] - a[2], b[3] - a[3]>>

Negated(v) == <<0 - v[1], 0 - v[2], 0 - v[3]>>

\* squared minimum distance of two cell boxes with index difference v
BoxDistSquare(v, cellLength) ==
  DistSquare(<<Max0(Abs(v[1]) - 1), Max0(Abs(v[2]) - 1), Max0(Abs(v[3]) - 1)>>, cellLength)

WithinReach(g, v) == BoxDistSquare(v, g.cellLength) <= g.interactionLength * g.interactionLength

\* index differences with every component within the overlap
OverlapBox(g) ==
  ((0 - g.overlap[1])..g.overlap[1]) \X ((0 - g.overlap[2])..g.overlap[2]) \X
  ((0 - g.overlap[3])..g.overlap[3])

\* dz > 0, or dz = 0 and dy > 0, or dz = dy = 0 and dx > 0
HalfShell(v) == v[3] > 0 \/ (v[3] = 0 /\ v[2] > 0) \/ (v[3] = 0 /\ v[2] = 0 /\ v[1] > 0)

\* the base cell is at least the overlap away from the lower and upper x and
\* y border (and below the upper z border, as every c18 base cell)
AwayFromBorder(g, c) ==
  /\ g.overlap[1] <= c[1] /\ c[1] < g.dims[1] - g.overlap[1]
  /\ g.overlap[2] <= c[2] /\ c[2] < g.dims[2] - g.overlap[2]

\* the index differences the c18 base step at base cell c works on
C18Directions(g, c) ==
  C18directionsFor(g, C18getIndex(g, c[2], 2) - g.overlap[2], C18getIndex(g, c[1], 1) - g.overlap[1])

\* cell c shifted by v lies inside the grid
InGrid3(g, c, v) ==
  /\ 0 <= c[1] + v[1] /\ c[1] + v[1] < g.dims[1]
  /\ 0 <= c[2] + v[2] /\ c[2] + v[2] < g.dims[2]
  /\ 0 <= c[3] + v[3] /\ c[3] + v[3] < g.dims[3]

\* the operations of the schedule on two different cells
PairOps == {k \in DOMAIN calls : calls[k][1] # calls[k][2]}

\* cell indices of the block of (overlap + 1)^3 cells anchored at cell c
BlockAt(g, c) ==
  {threeToOneD(c[1] + a[1], c[2] + a[2], c[3] + a[3], g.dims) :
     a \in (0..g.overlap[1]) \X (0..g.overlap[2]) \X (0..g.overlap[3])}

\* C24: with overlap 1 the c08 schedule of a base step is the base cell with
\* itself and 13 pairs of distinct cells of the 2x2x2 block at the base cell,
\* whose 13 index differences are pairwise different and never opposite.
C24_C08ThirteenPairs ==
  (pc = "processBaseCell" /\ traversalType = "c08" /\ geo.overlap = <<1, 1, 1>>) =>
    LET base == threeToOneD(pos[1], pos[2], pos[3], geo.dims)
        diffs == {CellDifference(calls[k], geo.dims) : k \in PairOps}
    IN  /\ Len(calls) = 14
        /\ Cardinality(PairOps) = 13
        /\ \A k \in DOMAIN calls : k \notin PairOps => calls[k] = <<base, base>>
        /\ \A k \in PairOps : calls[k][1] \in BlockAt(geo, pos) /\ calls[k][2] \in BlockAt(geo, pos)
        /\ Cardinality(diffs) = 13
        /\ \A v \in diffs : Negated(v) \notin diffs

C24_Witness ==
  /\ pc = "processBaseCell"
  /\ traversalType = "c08"
  /\ geo.overlap = <<1, 1, 1>>
  /\ pos = <<1, 1, 1>>
  /\ Cardinality(PairOps) = 13

\* the k-th operation of the c18 base step at pos is on the base cell and the
\* cell at the index the k-th index difference is mapped to
C18CallsFollow(dirs) ==
  LET base == threeToOneD(pos[1], pos[2], pos[3], geo.dims)
  IN  /\ Len(dirs) = Len(calls)
      /\ \A k \in DOMAIN calls :
           calls[k] = <<base, base + threeToOneD(dirs[k][1], dirs[k][2], dirs[k][3], geo.dims)>>

\* C25: c08 and c18 schedule a cell pair only if the squared minimum distance
\* of the two cell boxes is at most the squared interaction length, and they
\* schedule every candidate difference within the overlap that is within it
\* (c08: the difference or its opposite; c18: the half-shell differences that
\* stay inside the grid).
C25_DistanceFilter ==
  (pc = "processBaseCell") =>
    IF traversalType = "c08"
    THEN LET diffs == {CellDifference(calls[k], geo.dims) : k \in DOMAIN calls}
         IN  /\ \A v \in diffs : v \in OverlapBox(geo) /\ WithinReach(geo, v)
             /\ \A v \in OverlapBox(geo) :
                  WithinReach(geo, v) => (v \in diffs \/ Negated(v) \in diffs)
    ELSE LET dirs == SeqRange(C18Directions(geo, pos))
         IN  /\ C18CallsFollow(C18Directions(geo, pos))
             /\ \A v \in dirs : v \in OverlapBox(geo) /\ WithinReach(geo, v)
             /\ \A v \in OverlapBox(geo) :
                  ((HalfShell(v) \/ v = <<0, 0, 0>>) /\ InGrid3(geo, pos, v) /\ WithinReach(geo, v))
                    => v \in dirs

\* a c18 base step with a half-shell neighbour inside the grid and within the
\* overlap, but out of reach
C25_Witness ==
  /\ pc = "processBaseCell"
  /\ traversalType = "c18"
  /\ Len(calls) > 1
  /\ \E v \in OverlapBox(geo) :
       HalfShell(v) /\ InGrid3(geo, pos, v) /\ ~WithinReach(geo, v)

\* the c18 base step at pos works on the base cell once and on exactly the
\* index differences of the set D, each once
C18StepIs(D) ==
  LET dirs == C18Directions(geo, pos)
      base == threeToOneD(pos[1], pos[2], pos[3], geo.dims)
  IN  /\ C18CallsFollow(dirs)
      /\ SeqRange(dirs) = D
      /\ Cardinality(D) = Len(calls)
      /\ Cardinality({k \in DOMAIN calls : calls[k] = <<base, base>>}) = 1
      /\ \A v \in D : v # <<0, 0, 0>> => Negated(v) \notin D
      /\ geo.overlap = <<1, 1, 1>> => Len(calls) = 14

\* C26 as stated: away from the border the c18 base step works on the base
\* cell and on exactly the half-shell differences within the overlap.
C26_AsStated ==
  (pc = "processBaseCell" /\ traversalType = "c18" /\ AwayFromBorder(geo, pos)) =>
    C18StepIs({v \in OverlapBox(geo) : HalfShell(v) \/ v = <<0, 0, 0>>})

\* C26: away from the border the c18 base step works on the base cell once and
\* on exactly the half-shell differences within the overlap whose cell boxes
\* are within the interaction length; never on a difference and its opposite;
\* with overlap 1 on 13 neighbours and the base cell.
C26_HalfShellWithinReach ==
  (pc = "processBaseCell" /\ traversalType = "c18" /\ AwayFromBorder(geo, pos)) =>
    C18StepIs({v \in OverlapBox(geo) :
                 (HalfShell(v) \/ v = <<0, 0, 0>>) /\ WithinReach(geo, v)})

C26_Witness ==
  /\ pc = "processBaseCell"
  /\ traversalType = "c18"
  /\ AwayFromBorder(geo, pos)
  /\ geo.overlap = <<2, 2, 2>>
  /\ ~WithinReach(geo, <<2, 2, 2>>)
  /\ Len(calls) > 14

\* C30: every index the c18 base step uses lies inside the cell array and is
\* the index of the cell at base cell + (dx, dy, dz), which lies inside the
\* grid.
C30_NoWrapAround ==
  (pc = "processBaseCell" /\ traversalType = "c18") =>
    LET dirs == C18Directions(geo, pos)
    IN  /\ C18CallsFollow(dirs)
        /\ \A k \in DOMAIN calls :
             /\ 0 <= calls[k][2] /\ calls[k][2] < NumCells(geo.dims)
             /\ InGrid3(geo, pos, dirs[k])
             /\ calls[k][2] = threeToOneD(pos[1] + dirs[k][1], pos[2] + dirs[k][2],
                                          pos[3] + dirs[k][3], geo.dims)

(***************************************************************************)
(* Specification SpecAsBuild: the pair-generator functor of the as-build   *)
(* neighbor list, driven by the cell functor over two neighbouring cells:  *)
(* one building traversal, then one checking traversal.                    *)
(***************************************************************************)
AsBuildNumParticles == 3
AsBuildCellLength == 3
AsBuildCutoffSkin == 2

AsBuildParticles == 1..AsBuildNumParticles

\* positions on the x axis of the two cells
AsBuildPositions == {<<x, 0, 0>> : x \in 0..(2 * AsBuildCellLength - 1)}

\* the two cells: the particles of each cell in id order
AsBuildCells(ps) ==
  LET ids == [p \in AsBuildParticles |-> p]
      InFirst(p) == ps[p][1] < AsBuildCellLength
      InSecond(p) == ps[p][1] >= AsBuildCellLength
  IN  <<SelectSeq(ids, InFirst), SelectSeq(ids, InSecond)>>

\* VerletNeighborListAsBuild::addPair: j is recorded in the list of i
addPair(st, i, j) == [st EXCEPT !.lists[i] = Append(@, j)]

\* VerletNeighborListAsBuild::checkPair: the list is invalid if it lacks the pair
checkPair(st, i, j) == [st EXCEPT !.valid = @ /\ j \in SeqRange(st.lists[i])]

AsBuildInReach(ps, i, j) == Dist2(ps[i], ps[j]) < AsBuildCutoffSkin * AsBuildCutoffSkin

\* AsBuildPairGeneratorFunctor::AoSFunctor that adds the pair in both modes
AsBuildAoSFunctor_AlwaysAdds(st, i, j, ps, callCheckInstead) ==
  IF AsBuildInReach(ps, i, j) THEN addPair(st, i, j) ELSE st

\* AsBuildPairGeneratorFunctor::AoSFunctor
AsBuildAoSFunctor(st, i, j, ps, callCheckInstead) ==
  IF AsBuildInReach(ps, i, j)
  THEN (IF callCheckInstead THEN checkPair(st, i, j) ELSE addPair(st, i, j))
  ELSE st

RECURSIVE AddPairs(_, _, _)
\* addPair for the pairs prs[k..], in order
AddPairs(st, prs, k) ==
  IF k > Len(prs) THEN st
  ELSE AddPairs(addPair(st, prs[k][1], prs[k][2]), prs, k + 1)

\* AsBuildPairGeneratorFunctor::SoAFunctor(soa, newton3) without the second addPair
AsBuildSoAFunctor_NoReverse(st, soa, newton3, ps) ==
  LET n == Len(soa)
      F == [i \in 1..n |->
              LET G == [k \in 1..(n - i) |->
                          IF AsBuildInReach(ps, soa[i], soa[i + k])
                          THEN << <<soa[i], soa[i + k]>> >>
                          ELSE <<>>]
              IN  FlatMap(G, 1, n - i + 1)]
  IN  IF n = 0 THEN st ELSE AddPairs(st, FlatMap(F, 1, n + 1), 1)

\* AsBuildPairGeneratorFunctor::SoAFunctor(soa, newton3)
AsBuildSoAFunctor(st, soa, newton3, ps) ==
  LET n == Len(soa)
      F == [i \in 1..n |->
              LET G == [k \in 1..(n - i) |->
                          IF AsBuildInReach(ps, soa[i], soa[i + k])
                          THEN (IF newton3
                                THEN << <<soa[i], soa[i + k]>> >>
                                ELSE << <<soa[i], soa[i + k]>>, <<soa[i + k], soa[i]>> >>)
                          ELSE <<>>]
              IN  FlatMap(G, 1, n - i + 1)]
  IN  IF n = 0 THEN st ELSE AddPairs(st, FlatMap(F, 1, n + 1), 1)

\* AsBuildPairGeneratorFunctor::SoAFunctor(soa1, soa2, newton3)
AsBuildSoAFunctorPair(st, soa1, soa2, ps) ==
  LET F == [i \in 1..Len(soa1) |->
              LET G == [j \in 1..Len(soa2) |->
                          IF AsBuildInReach(ps, soa1[i], soa2[j])
                          THEN << <<soa1[i], soa2[j]>> >>
                          ELSE <<>>]
              IN  FlatMap(G, 1, Len(soa2) + 1)]
  IN  IF Len(soa1) = 0 \/ Len(soa2) = 0 THEN st
      ELSE AddPairs(st, FlatMap(F, 1, Len(soa1) + 1), 1)

RECURSIVE AsBuildApply(_, _, _, _, _)
\* the functor applied to the calls cseq[k..] of a traversal
AsBuildApply(st, cseq, k, ps, callCheckInstead) ==
  IF k > Len(cseq) THEN st
  ELSE LET c == cseq[k]
           next == IF c.fn = "AoS" THEN AsBuildAoSFunctor(st, c.i, c.j, ps, callCheckInstead)
                   ELSE IF c.fn = "SoA1" THEN AsBuildSoAFunctor(st, c.soa1, c.newton3, ps)
                   ELSE AsBuildSoAFunctorPair(st, c.soa1, c.soa2, ps)
       IN  AsBuildApply(next, cseq, k + 1, ps, callCheckInstead)

\* the functor calls of a traversal over the two cells: each cell with itself,
\* then the pair of cells
AsBuildTraversalCalls(cs, useSoA, n3) ==
  processCell(cs[1], useSoA, n3) \o processCell(cs[2], useSoA, n3) \o
  processCellPair(cs[1], cs[2], useSoA, n3)

AsBuildInit ==
  /\ pc = "constructed"
  /\ geo = <<2, 1, 1>>
  /\ traversalType = "none"
  /\ useNewton3 \in BOOLEAN
  /\ dataLayout \in {"aos", "soa"}
  /\ pos \in [AsBuildParticles -> AsBuildPositions]
  /\ cells = AsBuildCells(pos)
  /\ calls = <<>>
  /\ queue = 0
  /\ numThreads = 1
  /\ colour = 0
  /\ pending = {}
  /\ threads = {}
  /\ locks = <<>>
  /\ force = <<>>
  /\ aosCalls = 0
  /\ SelIdle
  /\ calculateGlobals = FALSE
  /\ LJConstructed
  /\ rebuildFrequency = 1
  /\ owned = AsBuildParticles
  /\ halo = {}
  /\ buildPos = <<>>
  /\ aosNeighborLists = [p \in AsBuildParticles |-> <<>>]
  /\ soaNeighborLists = <<>>
  /\ soaListIsValid = FALSE
  /\ neighborListIsValid = TRUE
  /\ verletBuiltNewton3 = FALSE
  /\ stepsSinceRebuild = 0
  /\ changedSinceBuild = FALSE
  /\ quiet = TRUE
  /\ history = <<>>
  /\ returned = {}
  /\ updated = FALSE
  /\ outcome = <<>>

AsBuildFrame ==
  /\ UNCHANGED <<geo, traversalType, useNewton3, cells, pos, calls, queue>>
  /\ UNCHANGED parVars
  /\ UNCHANGED <<functor, behavior, nDevices, traversal, errors, applicable, cutoff>>
  /\ UNCHANGED ljVars
  /\ UNCHANGED <<owned, halo, buildPos, soaNeighborLists, soaListIsValid, rebuildFrequency,
                 stepsSinceRebuild, changedSinceBuild, quiet, history, returned, updated, outcome>>

\* a traversal with AsBuildPairGeneratorFunctor<Particle, false> on the empty list
AsBuildGenerate ==
  /\ pc = "constructed"
  /\ LET cseq == AsBuildTraversalCalls(cells, dataLayout = "soa", useNewton3)
         st == AsBuildApply([lists |-> aosNeighborLists, valid |-> TRUE], cseq, 1, pos, FALSE)
     IN  /\ log' = cseq
         /\ aosNeighborLists' = st.lists
         /\ neighborListIsValid' = st.valid
  /\ verletBuiltNewton3' = useNewton3
  /\ pc' = "built"
  /\ UNCHANGED dataLayout
  /\ AsBuildFrame

\* a traversal with AsBuildPairGeneratorFunctor<Particle, true> on the built list
AsBuildCheck ==
  /\ pc = "built"
  /\ \E layout \in {"aos", "soa"} :
       LET cseq == AsBuildTraversalCalls(cells, layout = "soa", useNewton3)
           st == AsBuildApply([lists |-> aosNeighborLists, valid |-> TRUE], cseq, 1, pos, TRUE)
       IN  /\ log' = cseq
           /\ aosNeighborLists' = st.lists
           /\ neighborListIsValid' = st.valid
           /\ dataLayout' = layout
  /\ pc' = "checked"
  /\ UNCHANGED verletBuiltNewton3
  /\ AsBuildFrame

AsBuildNext == AsBuildGenerate \/ AsBuildCheck

SpecAsBuild == AsBuildInit /\ [][AsBuildNext]_vars

\* how often j is recorded in the list of i
Recorded(i, j) == Occurrences(aosNeighborLists[i], j)

\* C27: after a build, with newton3 a pair closer than cutoff + skin is
\* recorded once in the list of one of its two particles, without newton3
\* once in the list of each; a pair not closer than that and a particle with
\* itself are not recorded; for the AoS and the two SoA entry points.
C27_BuildRecordsPairs ==
  (pc = "built") =>
    \A i \in AsBuildParticles : \A j \in AsBuildParticles :
      IF i = j THEN Recorded(i, i) = 0
      ELSE IF ~AsBuildInReach(pos, i, j) THEN Recorded(i, j) = 0 /\ Recorded(j, i) = 0
      ELSE IF useNewton3 THEN Recorded(i, j) + Recorded(j, i) = 1
      ELSE Recorded(i, j) = 1 /\ Recorded(j, i) = 1

\* a build in SoA layout without newton3 that used both SoA entry points and
\* recorded a pair of one cell and a pair across the cells
C27_Witness ==
  /\ pc = "built"
  /\ dataLayout = "soa"
  /\ ~useNewton3
  /\ \E c \in SeqRange(log) : c.fn = "SoA2"
  /\ \E i, j \in SeqRange(cells[1]) : i # j /\ Recorded(i, j) = 1
  /\ \E i \in SeqRange(cells[1]) : \E j \in SeqRange(cells[2]) : Recorded(j, i) = 1

\* C28 as stated: a checking traversal leaves the neighbor list as it was,
\* whichever entry point it uses.
C28_AsStated ==
  [][(pc = "built" /\ pc' = "checked") => aosNeighborLists' = aosNeighborLists]_vars

\* C28: a checking traversal through AoSFunctor leaves the neighbor list as it
\* was; through the SoA entry points, which do not look at the flag, it
\* records every pair in reach once more.
C28_CheckThroughAoSOnly ==
  [][(pc = "built" /\ pc' = "checked") =>
       IF dataLayout' = "aos"
       THEN aosNeighborLists' = aosNeighborLists /\ neighborListIsValid'
       ELSE \A p \in AsBuildParticles :
              aosNeighborLists'[p] = aosNeighborLists[p] \o aosNeighborLists[p]]_vars

\* a checking traversal in AoS layout has run on a list that holds pairs
C28_Witness ==
  /\ pc = "checked"
  /\ dataLayout = "aos"
  /\ \E c \in SeqRange(log) : c.fn = "AoS" /\ AsBuildInReach(pos, c.i, c.j)
  /\ \E p \in AsBuildParticles : aosNeighborLists[p] # <<>>

(***************************************************************************)
(* Specification SpecVerletThreads: TraversalVerlet::traverseParticlePairs *)
(* run by the threads of an OpenMP team over built neighbor lists. A       *)
(* functor call is a step that begins and a step that ends; in between the *)
(* thread writes the particles of the call. calls is the bag of the        *)
(* functor calls made so far.                                              *)
(***************************************************************************)
ThreadsNumParticles == 3
ThreadsMaxTeam == 2
ThreadsBuckets == 2

ThreadsParticles == 1..ThreadsNumParticles

\* orders in which the container's iterator visits the particles
ThreadsOrders ==
  {[k \in 1..ThreadsNumParticles |-> k],
   [k \in 1..ThreadsNumParticles |-> ((k + 1) % ThreadsNumParticles) + 1]}

ThreadsPairs == {pr \in ThreadsParticles \X ThreadsParticles : pr[1] < pr[2]}

\* the AoS lists a build in newton3 mode n3 leaves for the pairs near
ThreadsListsOf(near, n3) ==
  LET ids == [p \in ThreadsParticles |-> p]
  IN  [i \in ThreadsParticles |->
         LET InList(j) == <<i, j>> \in near \/ (~n3 /\ <<j, i>> \in near)
         IN  SelectSeq(ids, InList)]

\* aosNeighborLists.bucket(key): the bucket of the hash map that holds the row
BucketOf(p) == p % ThreadsBuckets

\* SoAFunctor(_soa, soaNeighborLists, iFrom, iTo, newton3)
SoAVerletCall(from, to, n3) == [fn |-> "SoAVerlet", iFrom |-> from, iTo |-> to, newton3 |-> n3]

\* "#pragma omp parallel for" applies in both newton3 modes
ParallelRegion_Always(n3) == TRUE

\* "if (not useNewton3)": the loop over the rows is an OpenMP parallel for
ParallelRegion(n3) == ~n3

\* the iterations of the loop of traverseParticlePairs and the functor calls
\* of each: one iteration per bucket (AoS) or row (SoA) in the parallel
\* region, otherwise the whole loop as one piece of work
ThreadsIterations(lists, soaLists, layout, n3) ==
  IF layout = "aos"
  THEN IF ParallelRegion(n3)
       THEN [b \in 0..(ThreadsBuckets - 1) |->
               LET keys == SortedSeq({p \in DOMAIN lists : BucketOf(p) = b},
                                     [p \in DOMAIN lists |-> p])
                   F == [a \in 1..Len(keys) |->
                           [k \in 1..Len(lists[keys[a]]) |->
                              AoSCall(keys[a], lists[keys[a]][k], FALSE)]]
               IN  FlatMap(F, 1, Len(keys) + 1)]
       ELSE [b \in {0} |-> AoSListCalls(lists, n3)]
  ELSE IF ParallelRegion(n3)
       THEN [i \in 0..(Len(soaLists) - 1) |-> <<SoAVerletCall(i, i + 1, n3)>>]
       ELSE [b \in {0} |-> <<SoAVerletCall(0, Len(soaLists), n3)>>]

\* the threads that run the loop
ThreadsTeam(n3, nThreads) == IF ParallelRegion(n3) THEN 1..nThreads ELSE {1}

\* the particles a functor call writes: the particle that owns the row and,
\* with newton3, the particles in the row
WrittenBy(c, soaLists, order) ==
  IF c.fn = "AoS" THEN {c.i} \cup (IF c.newton3 THEN {c.j} ELSE {})
  ELSE UNION {{order[r + 1]} \cup
              (IF c.newton3 THEN {order[soaLists[r + 1][k]] : k \in DOMAIN soaLists[r + 1]}
               ELSE {}) : r \in c.iFrom..(c.iTo - 1)}

ThreadIdle == [todo |-> <<>>, busy |-> FALSE, writing |-> {}]

ThreadsInit ==
  /\ pc = "traverseParticlePairs"
  /\ geo = <<1, 1, 1>>
  /\ traversalType = "verletTraversal"
  /\ useNewton3 \in BOOLEAN
  /\ dataLayout \in {"aos", "soa"}
  /\ numThreads \in 1..ThreadsMaxTeam
  /\ \E order \in ThreadsOrders : cells = [c \in {0} |-> order]
  /\ \E near \in SUBSET ThreadsPairs :
       aosNeighborLists = ThreadsListsOf(near, useNewton3)
  /\ soaNeighborLists = generateSoAListFromAoSVerletLists(aosNeighborLists, cells)
  /\ pending = DOMAIN ThreadsIterations(aosNeighborLists, soaNeighborLists, dataLayout, useNewton3)
  /\ threads = [t \in ThreadsTeam(useNewton3, numThreads) |-> ThreadIdle]
  /\ force = [p \in ThreadsParticles |-> 0]
  /\ pos = <<>>
  /\ calls = EmptyBag
  /\ queue = 0
  /\ colour = 0
  /\ locks = <<>>
  /\ aosCalls = 0
  /\ SelIdle
  /\ calculateGlobals = FALSE
  /\ LJConstructed
  /\ rebuildFrequency = 1
  /\ owned = ThreadsParticles
  /\ halo = {}
  /\ buildPos = <<>>
  /\ soaListIsValid = TRUE
  /\ neighborListIsValid = TRUE
  /\ verletBuiltNewton3 = useNewton3
  /\ stepsSinceRebuild = 0
  /\ changedSinceBuild = FALSE
  /\ quiet = TRUE
  /\ history = <<>>
  /\ returned = {}
  /\ updated = FALSE
  /\ outcome = <<>>

ThreadsFrame ==
  /\ UNCHANGED <<geo, traversalType, useNewton3, dataLayout, cells, pos, queue>>
  /\ UNCHANGED <<numThreads, colour, locks, aosCalls>>
  /\ UNCHANGED <<functor, behavior, nDevices, traversal, errors, log, applicable, cutoff>>
  /\ UNCHANGED engineVars

\* thread t gets the next iteration the dynamic schedule hands out
ThreadTakesIteration(t) ==
  /\ pc = "traverseParticlePairs"
  /\ threads[t].todo = <<>>
  /\ \E b \in pending :
       /\ pending' = pending \ {b}
       /\ threads' = [threads EXCEPT ![t].todo =
            ThreadsIterations(aosNeighborLists, soaNeighborLists, dataLayout, useNewton3)[b]]
  /\ UNCHANGED <<pc, calls, force>>
  /\ ThreadsFrame

\* thread t enters the functor for the next entry of its iteration
ThreadBeginsCall(t) ==
  /\ pc = "traverseParticlePairs"
  /\ threads[t].todo # <<>>
  /\ ~threads[t].busy
  /\ calls' = calls (+) SetToBag({Head(threads[t].todo)})
  /\ threads' = [threads EXCEPT ![t].busy = TRUE,
                                ![t].writing = WrittenBy(Head(threads[t].todo), soaNeighborLists,
                                                         IterationOrder(cells))]
  /\ UNCHANGED <<pc, pending, force>>
  /\ ThreadsFrame

\* the functor call of thread t returns
ThreadEndsCall(t) ==
  /\ pc = "traverseParticlePairs"
  /\ threads[t].busy
  /\ force' = [p \in DOMAIN force |-> IF p \in threads[t].writing THEN force[p] + 1 ELSE force[p]]
  /\ threads' = [threads EXCEPT ![t].busy = FALSE, ![t].writing = {},
                                ![t].todo = Tail(threads[t].todo)]
  /\ UNCHANGED <<pc, pending, calls>>
  /\ ThreadsFrame

\* the loop is finished: traverseParticlePairs returns
ThreadsReturn ==
  /\ pc = "traverseParticlePairs"
  /\ pending = {}
  /\ \A t \in DOMAIN threads : threads[t].todo = <<>>
  /\ pc' = "done"
  /\ UNCHANGED <<pending, threads, calls, force>>
  /\ ThreadsFrame

ThreadsNext ==
  \/ \E t \in 1..ThreadsMaxTeam : t \in DOMAIN threads /\ ThreadTakesIteration(t)
  \/ \E t \in 1..ThreadsMaxTeam : t \in DOMAIN threads /\ ThreadBeginsCall(t)
  \/ \E t \in 1..ThreadsMaxTeam : t \in DOMAIN threads /\ ThreadEndsCall(t)
  \/ ThreadsReturn

SpecVerletThreads == ThreadsInit /\ [][ThreadsNext]_vars

\* the threads that have work
ActiveThreads == {t \in DOMAIN threads : threads[t].todo # <<>>}

\* the particle that owns the row thread t is working on
RowOwner(t) ==
  LET c == Head(threads[t].todo)
  IN  IF c.fn = "AoS" THEN c.i ELSE IterationOrder(cells)[c.iFrom + 1]

\* every entry of the lists has led to exactly one functor call
EveryEntryOnce ==
  IF dataLayout = "aos"
  THEN /\ \A i \in ThreadsParticles : \A j \in ThreadsParticles :
            CopiesIn(AoSCall(i, j, useNewton3), calls) = Occurrences(aosNeighborLists[i], j)
       /\ \A c \in BagToSet(calls) : c.fn = "AoS" /\ c.newton3 = useNewton3
  ELSE /\ \A r \in 0..(Len(soaNeighborLists) - 1) :
            /\ Cardinality({c \in BagToSet(calls) : c.iFrom <= r /\ r < c.iTo}) = 1
            /\ \A c \in BagToSet(calls) : (c.iFrom <= r /\ r < c.iTo) => CopiesIn(c, calls) = 1
       /\ \A c \in BagToSet(calls) : c.fn = "SoAVerlet" /\ c.newton3 = useNewton3

ThreadsSafe ==
  /\ Cardinality(ActiveThreads) > 1 => ~useNewton3
  /\ useNewton3 => DOMAIN threads = {1}
  /\ ~useNewton3 => \A t \in DOMAIN threads : threads[t].busy => threads[t].writing = {RowOwner(t)}
  /\ \A t1 \in DOMAIN threads : \A t2 \in DOMAIN threads :
       t1 # t2 => threads[t1].writing \cap threads[t2].writing = {}
  /\ pc = "done" => EveryEntryOnce

\* C29: rows are processed by several threads only without newton3, and then
\* a thread writes only the particle that owns its row, so no two threads
\* write the same particle at the same time; with newton3 one thread does all
\* rows; the lists are never modified by the traversal, and at its end every
\* list entry has led to exactly one functor call.
C29_RowsWithoutRaces ==
  /\ []ThreadsSafe
  /\ [][aosNeighborLists' = aosNeighborLists /\ soaNeighborLists' = soaNeighborLists]_vars

\* two threads are inside the functor at the same time, on different rows
C29_Witness ==
  /\ ~useNewton3
  /\ \E t1 \in DOMAIN threads : \E t2 \in DOMAIN threads :
       /\ t1 # t2
       /\ threads[t1].busy /\ threads[t2].busy
       /\ RowOwner(t1) # RowOwner(t2)

====
